---- MODULE Spec2Model ----
(***************************************************************************)
(* Publishing orchestration and job queue of the social media CMS:         *)
(* PublishingService (publishing.service.js), the queue workers of the     *)
(* bootstrap function, QueueService (queue.service.js) and the custom      *)
(* controller actions publish / schedule / cancelSchedule / bulkPublish.   *)
(*                                                                         *)
(* One time unit of the model is the queue's base backoff delay (5000 ms). *)
(* Instants are kept relative to the clock: Now is the clock's reading, an *)
(* instant t > Now lies t - Now units ahead, and every instant before Now  *)
(* is kept as Now - 1 (the code only compares instants with the clock).    *)
(***************************************************************************)
EXTENDS Integers, Sequences, FiniteSets, TLC

\* ------------------------------------------------------------------ bounds
MaxAccounts == 2      \* accounts linked to the post
MaxAhead == 2         \* how far ahead of the clock a request may schedule a post
MaxJobs == 2          \* jobs ever added to the social-post-scheduled queue
MaxFaultJobs == 1     \* the same, in a run with store faults
MaxTokens == 3        \* tokens (words and empty strings between spaces) of a content

\* --------------------------------------------------------- program constants
DefaultAttempts == 3       \* attempts: options.attempts || 3
DefaultPriority == 5       \* priority: options.priority || 5
BackoffDelay == 1          \* backoff.delay: 5000 ms, one time unit
ScheduledConcurrency == 3  \* concurrency of the social-post-scheduled worker
TweetLimit == 280          \* maxLength = 280, and the 280 of publishToPlatform

Now == 0            \* Date.now(): the instant the other instants are relative to
NoDate == -2        \* a scheduledPublishDate that is not set (null)
PostIds == {"p1"}
JobIds == 1..MaxJobs
HttpCaller == 0     \* the caller id of the HTTP request; jobs call under their job id
Callers == {HttpCaller} \cup JobIds

VARIABLES
    storeFaults, \* whether the content store may fail to answer (fixed per run)
    posts,      \* content store: documentId -> post record
    jobs,       \* the social-post-scheduled queue: job id -> job record
    nextJobId,  \* id the queue gives to the next added job
    calls,      \* running invocations of publishPost, by caller
    http,       \* the HTTP request being served
    twitter,    \* a publish to a Twitter account: texts, thread loop, API traffic
    analytics,  \* analytics map of a post, as updateAnalytics stores it
    sync,       \* the social-analytics-sync queue: posts, the job and its handler
    accountStore, \* stored accounts and the token operations on them
    queueService, \* QueueService called directly: its queues, jobs and results
    updaters    \* calls of updateAnalytics running side by side on one post

vars == <<storeFaults, posts, jobs, nextJobId, calls, http, twitter, analytics,
          sync, accountStore, queueService, updaters>>

\* Store, scheduled-post queue and requests of the publishing operations.
core == <<storeFaults, posts, jobs, nextJobId, calls, http>>

\* What the publishing and queue operations leave alone.
others == <<twitter, analytics, sync, accountStore, queueService, updaters>>

\* ------------------------------------------------------------ crypto vault
\* Variant of Encrypt: the text is stored as it is.
EncryptPlain(text) == text

\* encrypt(text): '' for an empty text, else the AES ciphertext of the text.
Encrypt(text) ==
    IF text = "" THEN "" ELSE
    CASE text = "tok_a" -> "enc_tok_a"
      [] text = "tok_b" -> "enc_tok_b"
      [] OTHER -> "enc_other"

\* decrypt(cipher): '' for an empty cipher; the plaintext of a ciphertext made
\* with this key; throws 'Failed to decrypt data' for anything else.
Decrypt(cipher) ==
    IF cipher = "" THEN [ok |-> TRUE, text |-> ""] ELSE
    CASE cipher = "enc_tok_a" -> [ok |-> TRUE, text |-> "tok_a"]
      [] cipher = "enc_tok_b" -> [ok |-> TRUE, text |-> "tok_b"]
      [] OTHER -> [ok |-> FALSE, text |-> "Failed to decrypt data"]

\* ---------------------------------------------------------------- accounts
\* result.url of an adapter whose result has no url (undefined).
NoUrl == "undefined"

\* The social media accounts a post can be linked to.
AccountPool == <<
    [name |-> "tw_main", platform |-> "twitter", accessToken |-> "garbage",
     remoteId |-> "id_tw_main", url |-> "url_tw_main"],
    [name |-> "fb_page", platform |-> "facebook", accessToken |-> Encrypt("tok_a"),
     remoteId |-> "id_fb_page", url |-> "url_fb_page"],
    [name |-> "tk_new", platform |-> "tiktok", accessToken |-> Encrypt("tok_b"),
     remoteId |-> "id_tk_new", url |-> "url_tk_new"],
    [name |-> "fb_shop", platform |-> "facebook", accessToken |-> Encrypt("tok_b"),
     remoteId |-> "id_fb_shop", url |-> "url_fb_shop"],
    [name |-> "li_me", platform |-> "linkedin", accessToken |-> Encrypt("tok_a"),
     remoteId |-> "id_li_me", url |-> NoUrl] >>

\* The platforms publishToPlatform's switch dispatches to an adapter.
SupportedPlatforms == {"facebook", "instagram", "twitter", "linkedin"}

\* The accounts of the pool with index in S, in pool order.
PickAccounts(S) ==
    LET idx == SelectSeq([i \in 1..Len(AccountPool) |-> i], LAMBDA i : i \in S)
    IN  [k \in 1..Len(idx) |-> AccountPool[idx[k]]]

AccountLists ==
    { PickAccounts(S) : S \in { T \in SUBSET (1..Len(AccountPool)) : Cardinality(T) <= MaxAccounts } }

EmptyMap == [x \in {} |-> ""]

\* m with key k set to v (results.platformPostIds[account.platform] = result.id)
MapPut(m, k, v) == [x \in DOMAIN m \cup {k} |-> IF x = k THEN v ELSE m[x]]

\* -------------------------------------------------------------- the store
\* strapi.documents(...).update({documentId, data}): only the fields of data change.
MergeFields(post, data) ==
    [f \in DOMAIN post |-> IF f \in DOMAIN data THEN data[f] ELSE post[f]]

\* A map as it is stored in a JSON field: a key whose value is undefined is
\* left out.
Serialise(m) == [x \in {k \in DOMAIN m : m[k] # NoUrl} |-> m[x]]

\* What update() does to the store when the store answers.
StoreUpdate(documentId, data) ==
    [posts EXCEPT ![documentId] = MergeFields(@, data)]

\* Whether the store answers a call: always, unless the run has store faults.
StoreAnswers == IF storeFaults THEN BOOLEAN ELSE {TRUE}

\* The queue still has an id for another job, within the bounds of the run.
JobIdLeft == nextJobId <= (IF storeFaults THEN MaxFaultJobs ELSE MaxJobs)

\* updatePostStatus(documentId, updates): the store's update inside a try whose
\* catch only logs, so a store that does not answer (~up) leaves the record as
\* it was and nothing is thrown.
UpdatePostStatus(documentId, updates, up) ==
    IF up THEN StoreUpdate(documentId, updates) ELSE posts

\* ------------------------------------------------------------- publishPost
NoAccountsError == "No social media accounts connected to this post"

\* const results = { success: [], failed: [], platformPostIds: {}, platformUrls: {} }
NewResults ==
    [success |-> <<>>, failed |-> <<>>,
     platformPostIds |-> EmptyMap, platformUrls |-> EmptyMap]

IdleCall ==
    [pc |-> "idle", postId |-> "none", accounts |-> <<>>, idx |-> 0,
     results |-> NewResults, invoked |-> <<>>, wrote |-> FALSE]

\* publishPost(post) has been called with the post entity its caller read.
NewCall(postId, post) ==
    [pc |-> "start", postId |-> postId, accounts |-> post.socialMediaAccounts,
     idx |-> 0, results |-> NewResults, invoked |-> <<>>, wrote |-> FALSE]

\* getPostAccounts(post): every caller populates socialMediaAccounts, so the
\* entity's own list is returned.
GetPostAccounts(call) == call.accounts

\* publishToPlatform up to the adapter call: the token is decrypted first, then
\* the switch on account.platform picks the adapter or throws.
PublishToPlatform(account) ==
    LET dec == Decrypt(account.accessToken) IN
    IF ~dec.ok THEN [kind |-> "throw", error |-> dec.text]
    ELSE IF account.platform \notin SupportedPlatforms
         THEN [kind |-> "throw", error |-> "Platform not supported"]
         ELSE [kind |-> "adapter", error |-> ""]

\* results after the success branch of the loop body for this account
PushSuccess(results, account) ==
    [results EXCEPT
        !.success = Append(@, [platform |-> account.platform, accountName |-> account.name,
                               postId |-> account.remoteId, url |-> account.url]),
        !.platformPostIds = MapPut(@, account.platform, account.remoteId),
        !.platformUrls = MapPut(@, account.platform, account.url)]

\* Variant of PushFailed: the catch branch records nothing.
PushFailedLost(results, account, message) == results

\* results after the catch branch of the loop body for this account
PushFailed(results, account, message) ==
    [results EXCEPT
        !.failed = Append(@, [platform |-> account.platform, accountName |-> account.name,
                              error |-> message])]

\* Variant of NewStatus: any failed account makes the post failed.
NewStatusAllOrNothing(results) ==
    IF Len(results.failed) > 0 THEN "failed" ELSE "published"

\* const newStatus = failed.length > 0 ? (success.length > 0 ? 'published' : 'failed') : 'published'
NewStatus(results) ==
    IF Len(results.failed) > 0
    THEN (IF Len(results.success) > 0 THEN "published" ELSE "failed")
    ELSE "published"

\* Variant of OutcomeUpdate: the status written is published whatever failed.
OutcomeUpdateAlwaysPublished(results) ==
    [status |-> "published",
     platformPostIds |-> Serialise(results.platformPostIds),
     platformUrls |-> Serialise(results.platformUrls),
     errorLog |-> results.failed]

\* The fields publishPost writes once the loop is over.
OutcomeUpdate(results) ==
    [status |-> NewStatus(results),
     platformPostIds |-> Serialise(results.platformPostIds),
     platformUrls |-> Serialise(results.platformUrls),
     errorLog |-> results.failed]

\* Variant of FailureUpdate: the error is not logged on the post.
FailureUpdateNoLog(message) == [status |-> "failed", errorLog |-> <<>>]

\* The fields the outer catch of publishPost writes.
FailureUpdate(message) ==
    [status |-> "failed",
     errorLog |-> <<[error |-> message]>>]

\* Variant of LoopDone: the loop stops one account short.
LoopDoneEarly(call) == call.idx >= Len(call.accounts)

\* The loop of publishPost has gone through every account.
LoopDone(call) == call.idx > Len(call.accounts)

\* Variant of RunLoop: the first account that throws ends the loop.
RunLoopAbort(call) ==
    IF LoopDone(call) THEN call
    ELSE LET account == call.accounts[call.idx]
             step == PublishToPlatform(account)
         IN  IF step.kind = "throw"
             THEN [call EXCEPT !.results = PushFailed(@, account, step.error),
                               !.idx = Len(call.accounts) + 1]
             ELSE [call EXCEPT !.pc = "await", !.invoked = Append(@, account.name)]

\* Variant of RunLoop: reaching an adapter call, the loop calls the adapters of
\* all the accounts that remain without waiting for any of them.
RunLoopEager(call) ==
    IF LoopDone(call) THEN call
    ELSE LET account == call.accounts[call.idx]
             step == PublishToPlatform(account)
             rest == SelectSeq(SubSeq(call.accounts, call.idx, Len(call.accounts)),
                               LAMBDA a : PublishToPlatform(a).kind = "adapter")
         IN  IF step.kind = "throw"
             THEN [call EXCEPT !.results = PushFailed(@, account, step.error),
                               !.idx = @ + 1, !.pc = "await"]
             ELSE [call EXCEPT !.pc = "await",
                               !.invoked = @ \o [k \in DOMAIN rest |-> rest[k].name]]

\* The loop of publishPost from its current account on, as far as it runs
\* without waiting: an account whose token does not decrypt or whose platform is
\* not supported is caught into failed at once; the loop stops at the first
\* adapter call (pc "await") or at its end (pc "loop").
RECURSIVE RunLoop(_)
RunLoop(call) ==
    IF LoopDone(call) THEN call
    ELSE LET account == call.accounts[call.idx]
             step == PublishToPlatform(account)
         IN  IF step.kind = "throw"
             THEN RunLoop([call EXCEPT !.results = PushFailed(@, account, step.error),
                                       !.idx = @ + 1])
             ELSE [call EXCEPT !.pc = "await", !.invoked = Append(@, account.name)]

\* publishPost goes on from `call`: it waits for the adapter it has just called,
\* or, the loop being over, writes the aggregated outcome and returns results.
Proceed(c, call) ==
    IF call.pc = "await"
    THEN /\ calls' = [calls EXCEPT ![c] = call]
         /\ UNCHANGED posts
    ELSE \E up \in StoreAnswers :
         /\ posts' = UpdatePostStatus(call.postId, OutcomeUpdate(call.results), up)
         /\ calls' = [calls EXCEPT ![c] = [call EXCEPT !.pc = "returned", !.wrote = up]]

\* publishPost starts: accounts are resolved; with none the error is thrown, the
\* outer catch marks the post failed and rethrows; otherwise the loop begins.
PublishBegin(c) ==
    /\ calls[c].pc = "start"
    /\ IF Len(GetPostAccounts(calls[c])) = 0
       THEN \E up \in StoreAnswers :
            /\ posts' = UpdatePostStatus(calls[c].postId, FailureUpdate(NoAccountsError), up)
            /\ calls' = [calls EXCEPT ![c].pc = "raised", ![c].wrote = up]
       ELSE Proceed(c, RunLoop([calls[c] EXCEPT !.pc = "loop", !.idx = 1]))
    /\ UNCHANGED <<others, storeFaults, jobs, nextJobId, http>>

\* The awaited adapter call resolves with {id, url} or rejects; the loop goes on.
PublishResolve(c) ==
    LET call == calls[c]
        account == call.accounts[call.idx]
    IN  /\ call.pc = "await"
        /\ \E ok \in BOOLEAN :
             Proceed(c, RunLoop([call EXCEPT
                !.results = IF ok THEN PushSuccess(@, account)
                            ELSE PushFailed(@, account, "publish error"),
                !.idx = @ + 1,
                !.pc = "loop"]))
        /\ UNCHANGED <<others, storeFaults, jobs, nextJobId, http>>

\* ------------------------------------------------------------ QueueService
NoValue == [kind |-> "none", results |-> NewResults]
Skipped == [kind |-> "skipped", results |-> NewResults]
ResultValue(results) == [kind |-> "result", results |-> results]

NoJob ==
    [state |-> "none", postId |-> "none", attempts |-> 0, attemptsMade |-> 0,
     runAt |-> 0, priority |-> 0, returnvalue |-> NoValue, hpc |-> "none",
     failedReason |-> "none"]

\* Variant of GetPriority: a tag that is not in the map counts as low.
GetPriorityUnknownLow(priority) ==
    CASE priority = "urgent" -> 1
      [] priority = "high" -> 2
      [] priority = "normal" -> 5
      [] OTHER -> 10

\* getPriority(priority): priorityMap[priority] || 5
GetPriority(priority) ==
    CASE priority = "urgent" -> 1
      [] priority = "high" -> 2
      [] priority = "normal" -> 5
      [] priority = "low" -> 10
      [] OTHER -> 5

\* Variant of AddJob: the delay option is dropped, the job waits to be taken.
AddJobNoDelay(data, options) ==
    [NoJob EXCEPT
        !.state = "waiting",
        !.postId = data.postId,
        !.attempts = IF options.attempts # 0 THEN options.attempts ELSE DefaultAttempts,
        !.priority = IF options.priority # 0 THEN options.priority ELSE DefaultPriority,
        !.runAt = Now]

\* addJob: queue.add(type, data, {...options, attempts: options.attempts || 3,
\* priority: options.priority || 5}); a job with a delay waits in the delayed set.
\* An option that is not given is 0 here.
AddJob(data, options) ==
    [NoJob EXCEPT
        !.state = IF options.delay > 0 THEN "delayed" ELSE "waiting",
        !.postId = data.postId,
        !.attempts = IF options.attempts # 0 THEN options.attempts ELSE DefaultAttempts,
        !.priority = IF options.priority # 0 THEN options.priority ELSE DefaultPriority,
        !.runAt = Now + options.delay]

\* addScheduledJob: delay = scheduledTime - Date.now(); a negative delay throws,
\* otherwise addJob with that delay.
AddScheduledJob(data, scheduledTime, options) ==
    LET delay == scheduledTime - Now IN
    IF delay < 0
    THEN [ok |-> FALSE, job |-> NoJob]
    ELSE [ok |-> TRUE,
          job |-> AddJob(data, [options EXCEPT !.delay = delay])]

\* Exponential backoff before retry number n (backoff: exponential, delay 5000).
Backoff(n) == BackoffDelay * 2 ^ (n - 1)

\* Variant of RetriesLeft: one retry more than attempts allows.
RetriesLeftOneMore(attemptsMade, attempts) == attemptsMade <= attempts

\* A failed attempt is retried while attempts remain.
RetriesLeft(attemptsMade, attempts) == attemptsMade < attempts

\* The queue's handling of a handler that threw.
MoveToFailed(job, reason) ==
    LET made == job.attemptsMade + 1 IN
    IF RetriesLeft(made, job.attempts)
    THEN [job EXCEPT !.state = "delayed", !.attemptsMade = made, !.hpc = "none",
                     !.runAt = Now + Backoff(made), !.failedReason = reason]
    ELSE [job EXCEPT !.state = "failed", !.attemptsMade = made, !.hpc = "none",
                     !.failedReason = reason]

\* The queue's handling of a handler that returned.
MoveToCompleted(job, value) ==
    [job EXCEPT !.state = "completed", !.returnvalue = value, !.hpc = "none"]

\* A job the worker may take: waiting, or delayed with its delay over.
Startable(j) ==
    \/ jobs[j].state = "waiting"
    \/ jobs[j].state = "delayed" /\ jobs[j].runAt <= Now

ActiveJobs == {j \in JobIds : jobs[j].state = "active"}

\* ----------------------------------------- worker of social-post-scheduled
\* Variant of JobStart: the handler publishes the post whatever its status.
JobStartAnyStatus(j) ==
    /\ Startable(j)
    /\ Cardinality(ActiveJobs) < ScheduledConcurrency
    /\ \A k \in JobIds : Startable(k) => jobs[k].priority >= jobs[j].priority
    /\ \E up \in StoreAnswers :
         IF ~up
         THEN /\ jobs' = [jobs EXCEPT ![j] = MoveToFailed(@, "store unreachable")]
              /\ UNCHANGED calls
         ELSE /\ jobs' = [jobs EXCEPT ![j].state = "active", ![j].hpc = "publishing"]
              /\ calls' = [calls EXCEPT ![j] =
                             NewCall(jobs[j].postId, posts[jobs[j].postId])]
    /\ UNCHANGED <<others, storeFaults, posts, nextJobId, http>>

\* The worker takes a job (at most `concurrency` are active, lowest priority
\* number first) and runs the handler on it. The handler reads the post; a
\* store that does not answer makes it throw, a status other than scheduled
\* makes it return {skipped: true}, otherwise it calls publishPost with the
\* post it read.
JobStart(j) ==
    /\ Startable(j)
    /\ Cardinality(ActiveJobs) < ScheduledConcurrency
    /\ \A k \in JobIds : Startable(k) => jobs[k].priority >= jobs[j].priority
    /\ \E up \in StoreAnswers :
         IF ~up
         THEN /\ jobs' = [jobs EXCEPT ![j] = MoveToFailed(@, "store unreachable")]
              /\ UNCHANGED calls
         ELSE IF posts[jobs[j].postId].status # "scheduled"
         THEN /\ jobs' = [jobs EXCEPT ![j] = MoveToCompleted(@, Skipped)]
              /\ UNCHANGED calls
         ELSE /\ jobs' = [jobs EXCEPT ![j].state = "active", ![j].hpc = "publishing"]
              /\ calls' = [calls EXCEPT ![j] =
                             NewCall(jobs[j].postId, posts[jobs[j].postId])]
    /\ UNCHANGED <<others, storeFaults, posts, nextJobId, http>>

\* publishPost has finished: its result is the job's return value, its error
\* is rethrown to the queue.
HandlerFinish(j) ==
    /\ jobs[j].state = "active"
    /\ jobs[j].hpc = "publishing"
    /\ calls[j].pc \in {"returned", "raised"}
    /\ jobs' = [jobs EXCEPT ![j] =
                  IF calls[j].pc = "returned"
                  THEN MoveToCompleted(@, ResultValue(calls[j].results))
                  ELSE MoveToFailed(@, NoAccountsError)]
    /\ calls' = [calls EXCEPT ![j] = IdleCall]
    /\ UNCHANGED <<others, storeFaults, posts, nextJobId, http>>

\* ------------------------------------------------- controller and service
IdleHttp ==
    [op |-> "none", pc |-> "none", postId |-> "none", date |-> NoDate, jobId |-> 0]

HttpFree == http.op = "none" /\ calls[HttpCaller].pc = "idle"

\* POST /social-media-posts/:id/publish: the post is read; an already published
\* post is refused (400), otherwise publishPost is called with the post read.
\* (A request whose read of the post fails is answered 500 and changes nothing;
\* the same holds for the other requests below.)
HttpPublish(p) ==
    /\ HttpFree
    /\ posts[p].status # "published"
    /\ http' = [IdleHttp EXCEPT !.op = "publish", !.postId = p]
    /\ calls' = [calls EXCEPT ![HttpCaller] = NewCall(p, posts[p])]
    /\ UNCHANGED <<others, storeFaults, posts, jobs, nextJobId>>

\* POST /social-media-posts/bulk-publish with this post: the post is read and
\* publishPost is called, whatever the post's status.
HttpBulkPublish(p) ==
    /\ HttpFree
    /\ http' = [IdleHttp EXCEPT !.op = "bulk", !.postId = p]
    /\ calls' = [calls EXCEPT ![HttpCaller] = NewCall(p, posts[p])]
    /\ UNCHANGED <<others, storeFaults, posts, jobs, nextJobId>>

\* The controller gets publishPost's result (200) or error (500; in the bulk
\* response's failed list) and answers.
HttpPublishEnd ==
    /\ http.op \in {"publish", "bulk"}
    /\ calls[HttpCaller].pc \in {"returned", "raised"}
    /\ http' = IdleHttp
    /\ calls' = [calls EXCEPT ![HttpCaller] = IdleCall]
    /\ UNCHANGED <<others, storeFaults, posts, jobs, nextJobId>>

\* POST /social-media-posts/:id/schedule {scheduledPublishDate: d}: the date is
\* written to the post, then schedulePost is called with the updated post.
\* (A request without a date is answered 400 and changes nothing.)
HttpSchedule(p, d) ==
    /\ HttpFree
    /\ JobIdLeft
    /\ posts' = StoreUpdate(p, [scheduledPublishDate |-> d])
    /\ http' = [IdleHttp EXCEPT !.op = "schedule", !.pc = "check",
                                !.postId = p, !.date = d]
    /\ UNCHANGED <<others, storeFaults, jobs, nextJobId, calls>>

\* schedulePost(post) called with the post entity as stored.
ServiceSchedule(p) ==
    /\ HttpFree
    /\ JobIdLeft
    /\ http' = [IdleHttp EXCEPT !.op = "schedule", !.pc = "check", !.postId = p,
                                !.date = posts[p].scheduledPublishDate]
    /\ UNCHANGED <<others, storeFaults, posts, jobs, nextJobId, calls>>

\* Variant of ScheduleError: a date equal to the clock is accepted.
ScheduleErrorNowAccepted(date) ==
    IF date = NoDate THEN "Post does not have a scheduled publish date"
    ELSE IF date < Now THEN "Scheduled time must be in the future"
    ELSE ""

\* schedulePost's validation: the error it throws, "" when the date is accepted.
ScheduleError(date) ==
    IF date = NoDate THEN "Post does not have a scheduled publish date"
    ELSE IF date <= Now THEN "Scheduled time must be in the future"
    ELSE ""

\* schedulePost up to the queue call: validation, then addScheduledJob with the
\* priority of the post's tag; an error is logged and rethrown.
SchedulePostRun ==
    LET p == http.postId
        added == AddScheduledJob([postId |-> p], http.date,
                     [priority |-> GetPriority(posts[p].priority),
                      attempts |-> 0, delay |-> 0])
    IN  /\ http.op = "schedule"
        /\ http.pc = "check"
        /\ IF ScheduleError(http.date) # "" \/ ~added.ok
           THEN /\ http' = [http EXCEPT !.pc = "thrown"]
                /\ UNCHANGED <<jobs, nextJobId>>
           ELSE /\ jobs' = [jobs EXCEPT ![nextJobId] = added.job]
                /\ nextJobId' = nextJobId + 1
                /\ http' = [http EXCEPT !.pc = "setStatus", !.jobId = nextJobId]
        /\ UNCHANGED <<others, storeFaults, posts, calls>>

\* schedulePost after the job is added: the post's status becomes scheduled,
\* {jobId, scheduledTime} is returned and the controller answers 200.
SchedulePostSetStatus ==
    /\ http.op = "schedule"
    /\ http.pc = "setStatus"
    /\ \E up \in StoreAnswers :
         /\ posts' = UpdatePostStatus(http.postId, [status |-> "scheduled"], up)
    /\ http' = IdleHttp
    /\ UNCHANGED <<others, storeFaults, jobs, nextJobId, calls>>

\* POST /social-media-posts/:id/cancel-schedule {jobId: j}: the post is read,
\* then cancelScheduledPost is called.
HttpCancel(p, j) ==
    /\ HttpFree
    /\ http' = [IdleHttp EXCEPT !.op = "cancel", !.pc = "remove",
                                !.postId = p, !.jobId = j]
    /\ UNCHANGED <<others, storeFaults, posts, jobs, nextJobId, calls>>

\* Variant of GetJob: a job in the delayed set is not found.
GetJobNotDelayed(j) ==
    IF jobs[j].state \in {"none", "removed", "delayed"} THEN NoJob ELSE jobs[j]

\* getJob(queueName, jobId): the job, or null when there is none.
GetJob(j) == IF jobs[j].state \in {"none", "removed"} THEN NoJob ELSE jobs[j]

\* Variant of Locked: the queue removes a job whoever holds it.
LockedNever(job) == FALSE

\* job.remove() is refused for a job a worker is processing (it holds the lock).
Locked(job) == job.state = "active"

\* removeJob: a job that exists is removed; the queue refuses to remove a job
\* a worker holds, and that error is rethrown.
CancelRemove ==
    LET j == http.jobId IN
    /\ http.op = "cancel"
    /\ http.pc = "remove"
    /\ IF GetJob(j).state = "none"
       THEN /\ http' = [http EXCEPT !.pc = "setDraft"]
            /\ UNCHANGED jobs
       ELSE IF Locked(GetJob(j))
       THEN /\ http' = [http EXCEPT !.pc = "thrown"]
            /\ UNCHANGED jobs
       ELSE /\ jobs' = [jobs EXCEPT ![j] = [NoJob EXCEPT !.state = "removed"]]
            /\ http' = [http EXCEPT !.pc = "setDraft"]
    /\ UNCHANGED <<others, storeFaults, posts, nextJobId, calls>>

\* cancelScheduledPost after removeJob: the post's status becomes draft and the
\* controller answers 200.
CancelSetDraft ==
    /\ http.op = "cancel"
    /\ http.pc = "setDraft"
    /\ \E up \in StoreAnswers :
         /\ posts' = UpdatePostStatus(http.postId, [status |-> "draft"], up)
    /\ http' = IdleHttp
    /\ UNCHANGED <<others, storeFaults, jobs, nextJobId, calls>>

\* schedulePost or cancelScheduledPost threw: the controller's catch answers 500.
HttpRespond ==
    /\ http.op \in {"schedule", "cancel"}
    /\ http.pc = "thrown"
    /\ http' = IdleHttp
    /\ UNCHANGED <<others, storeFaults, posts, jobs, nextJobId, calls>>

\* ------------------------------------------------------------ environment
\* An instant one time unit later: what lay ahead comes closer, what is now or
\* past is past.
Later(t) ==
    IF t = NoDate THEN NoDate
    ELSE IF t > Now THEN t - 1
    ELSE Now - 1

\* The clock advances by one time unit.
Tick ==
    /\ posts' = [p \in PostIds |->
                   [posts[p] EXCEPT !.scheduledPublishDate = Later(@)]]
    /\ jobs' = [j \in JobIds |->
                  IF jobs[j].state = "delayed"
                  THEN [jobs[j] EXCEPT !.runAt = Later(@)]
                  ELSE jobs[j]]
    /\ http' = [http EXCEPT !.date = Later(@)]
    /\ UNCHANGED <<others, storeFaults, nextJobId, calls>>

\* ----------------------------------------------------------------- Twitter
\* A text is kept as the tokens text.split(' ') gives, each with its position
\* and its length in characters; two adjacent spaces, or a space at either end,
\* give a token of length 0. The text's length is that of the tokens joined
\* with single spaces.
RECURSIVE SumLen(_)
SumLen(tokens) ==
    IF tokens = <<>> THEN 0 ELSE Head(tokens).len + SumLen(Tail(tokens))

\* tokens.join(' ').length
JoinLength(tokens) ==
    IF tokens = <<>> THEN 0 ELSE SumLen(tokens) + Len(tokens) - 1

\* The text whose tokens have these lengths.
Text(lens) == [i \in DOMAIN lens |-> [pos |-> i, len |-> lens[i]]]

\* (currentTweet + ' ' + word).trim(): currentTweet holds no empty token, so
\* the trim only undoes the space put before or after an empty string.
TrimJoin(currentTweet, word) ==
    IF word.len = 0 THEN currentTweet ELSE Append(currentTweet, word)

\* Variant of SplitFrom: a word that does not fit starts the next tweet, but
\* the tweet it closes is not kept when the words run out.
RECURSIVE SplitFromLosesLast(_, _, _, _)
SplitFromLosesLast(words, currentTweet, tweets, maxLength) ==
    IF words = <<>> THEN tweets
    ELSE LET word == Head(words)
             joined == TrimJoin(currentTweet, word)
         IN  IF JoinLength(joined) <= maxLength
             THEN SplitFromLosesLast(Tail(words), joined, tweets, maxLength)
             ELSE SplitFromLosesLast(Tail(words), TrimJoin(<<>>, word),
                      IF currentTweet # <<>> THEN Append(tweets, currentTweet)
                      ELSE tweets, maxLength)

\* The loop of splitIntoTweets over the words that remain, and the push of
\* the last tweet after it.
RECURSIVE SplitFrom(_, _, _, _)
SplitFrom(words, currentTweet, tweets, maxLength) ==
    IF words = <<>>
    THEN IF currentTweet # <<>> THEN Append(tweets, currentTweet) ELSE tweets
    ELSE LET word == Head(words)
             joined == TrimJoin(currentTweet, word)
         IN  IF JoinLength(joined) <= maxLength
             THEN SplitFrom(Tail(words), joined, tweets, maxLength)
             ELSE SplitFrom(Tail(words), TrimJoin(<<>>, word),
                      IF currentTweet # <<>> THEN Append(tweets, currentTweet)
                      ELSE tweets, maxLength)

\* splitIntoTweets(text, maxLength)
SplitIntoTweets(text, maxLength) == SplitFrom(text, <<>>, <<>>, maxLength)

\* mention.startsWith('@') ? mention : `@${mention}` (and the same with '#'):
\* an entry without its mark grows by one character.
WithMark(entries) ==
    [i \in DOMAIN entries |->
        [len |-> IF entries[i].marked THEN entries[i].len ELSE entries[i].len + 1]]

\* formatTwitterText(content, hashtags, mentions): mentions go before the
\* content, hashtags after it when the whole stays within the limit.
FormatTwitterText(content, hashtags, mentions) ==
    LET withMentions == IF Len(mentions) > 0 THEN WithMark(mentions) \o content
                        ELSE content
        withHashtags == withMentions \o WithMark(hashtags)
        chosen == IF Len(hashtags) > 0 /\ JoinLength(withHashtags) <= TweetLimit
                  THEN withHashtags ELSE withMentions
    IN  Text([i \in DOMAIN chosen |-> chosen[i].len])

\* if (postData.text.length > 280): the text goes out as a thread.
NeedsThreadAtLimit(text) == JoinLength(text) >= TweetLimit

NeedsThread(text) == JoinLength(text) > TweetLimit

NoTweetId == 0

IdleTwitter ==
    [pc |-> "idle", via |-> "none", content |-> <<>>, hashtags |-> <<>>,
     mentions |-> <<>>, mediaIds |-> <<>>, text |-> <<>>, tweets |-> <<>>,
     i |-> 0, previousTweetId |-> NoTweetId, sent |-> <<>>, postedTweets |-> <<>>]

\* Variant of ThreadPayload: the media goes on every tweet of the thread.
ThreadPayloadMediaAll(tweets, i, mediaIds, previousTweetId) ==
    [text |-> tweets[i], media |-> mediaIds, reply |-> previousTweetId]

\* postThread's payload of tweet i (the code counts from 0): media on the
\* first tweet only, reply set when a previous tweet id is known.
ThreadPayload(tweets, i, mediaIds, previousTweetId) ==
    [text |-> tweets[i],
     media |-> IF i = 1 /\ Len(mediaIds) > 0 THEN mediaIds ELSE <<>>,
     reply |-> previousTweetId]

\* postTweet's payload for {text, mediaIds} (no reply, no quote).
TweetPayload(text, mediaIds) ==
    [text |-> text, media |-> mediaIds, reply |-> NoTweetId]

\* splitIntoTweets called on the content as it is.
SplitText ==
    /\ twitter.pc = "input"
    /\ twitter' = [twitter EXCEPT
          !.pc = "split", !.via = "split", !.text = twitter.content,
          !.tweets = SplitIntoTweets(twitter.content, TweetLimit)]
    /\ UNCHANGED <<core, updaters, analytics, sync, accountStore, queueService>>

\* publishToPlatform, case 'twitter': the text is formatted, mediaIds is [];
\* a text over the limit is split and postThread starts, otherwise postTweet
\* sends the one tweet.
PublishTwitter ==
    LET text == FormatTwitterText(twitter.content, twitter.hashtags, twitter.mentions)
    IN  /\ twitter.pc = "input"
        /\ IF NeedsThread(text)
           THEN twitter' = [twitter EXCEPT
                   !.pc = "thread", !.via = "publish", !.text = text,
                   !.mediaIds = <<>>, !.i = 1,
                   !.tweets = SplitIntoTweets(text, TweetLimit)]
           ELSE twitter' = [twitter EXCEPT
                   !.pc = "tweet", !.via = "publish", !.text = text,
                   !.mediaIds = <<>>,
                   !.sent = <<TweetPayload(text, <<>>)>>]
    /\ UNCHANGED <<core, updaters, analytics, sync, accountStore, queueService>>

\* postThread(accessToken, tweets, mediaIds) called with the chunks of the
\* content and the given media ids.
PostThreadCall ==
    /\ twitter.pc = "input"
    /\ twitter' = [twitter EXCEPT
          !.pc = "thread", !.via = "postThread", !.text = twitter.content,
          !.i = 1, !.tweets = SplitIntoTweets(twitter.content, TweetLimit)]
    /\ UNCHANGED <<core, updaters, analytics, sync, accountStore, queueService>>

\* The loop of postThread builds the payload of tweet i and calls the API; when
\* no tweet is left postThread returns postedTweets.
ThreadSend ==
    /\ twitter.pc = "thread"
    /\ IF twitter.i <= Len(twitter.tweets)
       THEN twitter' = [twitter EXCEPT
               !.pc = "threadWait",
               !.sent = Append(@, ThreadPayload(twitter.tweets, twitter.i,
                                   twitter.mediaIds, twitter.previousTweetId))]
       ELSE twitter' = [twitter EXCEPT !.pc = "done"]
    /\ UNCHANGED <<core, updaters, analytics, sync, accountStore, queueService>>

\* The API answers the tweet of the thread: its id becomes previousTweetId and
\* the loop goes on, or the error ends postThread.
ThreadResponse ==
    /\ twitter.pc = "threadWait"
    /\ \E ok \in BOOLEAN :
         IF ok
         THEN LET id == Len(twitter.postedTweets) + 1 IN
              twitter' = [twitter EXCEPT
                 !.pc = "thread", !.i = @ + 1, !.previousTweetId = id,
                 !.postedTweets = Append(@, [id |-> id,
                                     text |-> twitter.sent[Len(twitter.sent)].text])]
         ELSE twitter' = [twitter EXCEPT !.pc = "failed"]
    /\ UNCHANGED <<core, updaters, analytics, sync, accountStore, queueService>>

\* The API answers the single tweet of postTweet.
TweetResponse ==
    /\ twitter.pc = "tweet"
    /\ \E ok \in BOOLEAN :
         IF ok
         THEN twitter' = [twitter EXCEPT
                 !.pc = "done",
                 !.postedTweets = <<[id |-> 1, text |-> twitter.sent[1].text]>>]
         ELSE twitter' = [twitter EXCEPT !.pc = "failed"]
    /\ UNCHANGED <<core, updaters, analytics, sync, accountStore, queueService>>

\* Inputs of the Twitter operations.
TokenLengths == {0, 100, 179, 281}

Contents ==
    UNION {{Text(lens) : lens \in [1..n -> TokenLengths]} : n \in 1..MaxTokens}

MentionLists == {<<>>, <<[len |-> 9, marked |-> FALSE]>>}

HashtagLists == {<<>>, <<[len |-> 50, marked |-> TRUE]>>}

MediaLists == {<<>>, <<"m1">>}

\* --------------------------------------------------------------- analytics
\* The analytics object of a post is a map from keys to numbers: the key of an
\* aggregate metric is <<"", metric>>, the key `${platform}_${metric}` is
\* <<platform, metric>>. lastSyncDate is left out.
Metrics == {"likes", "shares", "comments", "views", "clicks", "reach", "impressions"}

\* const platforms = [...] of sumPlatformMetrics
SummedPlatforms ==
    <<"facebook", "instagram", "twitter", "linkedin", "tiktok", "youtube">>

AggregateKey(metric) == <<"", metric>>

PlatformKey(platform, metric) == <<platform, metric>>

\* post.analytics that is null
NullAnalytics == <<>>

\* The default of updateAnalytics, and the analytics of a duplicated post.
ZeroAnalytics == [k \in {AggregateKey(m) : m \in Metrics} |-> 0]

\* { ...a, ...b }: the keys of b replace or extend those of a.
Spread(a, b) ==
    [k \in DOMAIN a \cup DOMAIN b |-> IF k \in DOMAIN b THEN b[k] ELSE a[k]]

RECURSIVE SumOver(_, _, _)
SumOver(platforms, stored, metric) ==
    IF platforms = <<>> THEN 0
    ELSE LET key == PlatformKey(Head(platforms), metric)
         IN  (IF key \in DOMAIN stored THEN stored[key] ELSE 0)
             + SumOver(Tail(platforms), stored, metric)

\* Variant of SumPlatformMetrics: the total starts from the aggregate stored
\* so far.
SumPlatformMetricsOnTop(stored, metric) ==
    (IF AggregateKey(metric) \in DOMAIN stored THEN stored[AggregateKey(metric)] ELSE 0)
    + SumOver(SummedPlatforms, stored, metric)

\* sumPlatformMetrics(analytics, metric)
SumPlatformMetrics(stored, metric) == SumOver(SummedPlatforms, stored, metric)

\* The analytics updateAnalytics computes from the post's analytics, the
\* platform and the platform's data (a metric the data lacks counts 0).
MergeAnalytics(current, platform, data) ==
    LET base == IF current = NullAnalytics THEN ZeroAnalytics ELSE current
        merged == Spread(base, [k \in {PlatformKey(platform, m) : m \in Metrics} |->
                                   data[k[2]]])
    IN  Spread(merged, [k \in {AggregateKey(m) : m \in Metrics} |->
                           SumPlatformMetrics(merged, k[2])])

\* No call of updateAnalytics in flight; `merged` remembers, per platform, the
\* data of the latest call that has completed.
NoAnalytics ==
    [pc |-> "idle", stored |-> NullAnalytics, platform |-> "none",
     data |-> <<>>, current |-> NullAnalytics, merged |-> <<>>]

\* Data a platform reports: likes and views vary, the other metrics are absent.
AnalyticsData ==
    {[m \in Metrics |-> IF m = "likes" THEN l ELSE IF m = "views" THEN v ELSE 0] :
        l \in {0, 5, 10}, v \in {0, 3}}

\* The platforms the analytics worker syncs.
SyncedPlatforms == {"facebook", "twitter"}

\* updateAnalytics(documentId, analyticsData, platform) reads the post.
UpdateAnalyticsRead(platform, data) ==
    /\ analytics.pc = "idle"
    /\ analytics' = [analytics EXCEPT
          !.pc = "read", !.platform = platform, !.data = data,
          !.current = analytics.stored]
    /\ UNCHANGED <<core, updaters, twitter, sync, accountStore, queueService>>

\* updateAnalytics merges the data, recomputes the totals and stores the result.
UpdateAnalyticsWrite ==
    /\ analytics.pc = "read"
    /\ analytics' = [analytics EXCEPT
          !.pc = "idle",
          !.stored = MergeAnalytics(analytics.current, analytics.platform,
                                    analytics.data),
          !.merged = Spread(@, [k \in {analytics.platform} |-> analytics.data]),
          !.platform = "none", !.data = <<>>, !.current = NullAnalytics]
    /\ UNCHANGED <<core, updaters, twitter, sync, accountStore, queueService>>


\* ------------------------------------- updateAnalytics calls side by side
\* The analytics-sync worker runs up to `concurrency` jobs at a time, so two
\* jobs of one post have their updateAnalytics calls running together.
Updaters == 1..2

IdleUpdater ==
    [pc |-> "idle", platform |-> "none", data |-> <<>>, current |-> NullAnalytics]

NoUpdaters ==
    [stored |-> NullAnalytics, calls |-> [u \in Updaters |-> IdleUpdater]]

\* The call reads the analytics of the post (findOne).
ReadAnalytics(stored, call) == [call EXCEPT !.current = stored]

\* updateAnalytics of updater u starts: the post is read.
ConcurrentRead(u, platform, data) ==
    /\ updaters.calls[u].pc = "idle"
    /\ updaters' = [updaters EXCEPT
          !.calls[u] = ReadAnalytics(updaters.stored,
                          [IdleUpdater EXCEPT !.pc = "read", !.platform = platform,
                                              !.data = data])]
    /\ UNCHANGED <<core, twitter, analytics, sync, accountStore, queueService>>

\* updateAnalytics of updater u merges its data into what it read, recomputes
\* the totals and stores the result.
ConcurrentWrite(u) ==
    LET call == updaters.calls[u] IN
    /\ call.pc = "read"
    /\ updaters' = [updaters EXCEPT
          !.stored = MergeAnalytics(call.current, call.platform, call.data),
          !.calls[u].pc = "done"]
    /\ UNCHANGED <<core, twitter, analytics, sync, accountStore, queueService>>

\* ----------------------------------------- worker of social-analytics-sync
SyncPostIds == {"s1", "s2"}

\* job.data.postId of a job whose data has no postId (the recurring job).
NoPostId == "undefined"

\* The accounts the posts of this queue can be linked to.
SyncAccountPool == <<
    [name |-> "fb_page", platform |-> "facebook", accessToken |-> Encrypt("tok_a")],
    [name |-> "tw_main", platform |-> "twitter", accessToken |-> "garbage"],
    [name |-> "ig_main", platform |-> "instagram", accessToken |-> Encrypt("tok_b")],
    [name |-> "tk_new", platform |-> "tiktok", accessToken |-> Encrypt("tok_b")] >>

PickSyncAccounts(S) ==
    LET idx == SelectSeq([i \in 1..Len(SyncAccountPool) |-> i], LAMBDA i : i \in S)
    IN  [k \in 1..Len(idx) |-> SyncAccountPool[idx[k]]]

SyncAccountLists ==
    { PickSyncAccounts(S) :
        S \in { T \in SUBSET (1..Len(SyncAccountPool)) : Cardinality(T) <= MaxAccounts } }

\* The platforms the handler's switch fetches analytics for.
FetchPlatforms == {"facebook", "instagram", "twitter"}

\* What a platform reports for a post.
PlatformReport(platform) ==
    [m \in Metrics |-> IF m = "likes" THEN (IF platform = "facebook" THEN 5 ELSE 10)
                       ELSE 0]

\* A post as the handler reads it: platformPostIds holds the platforms that
\* have an id.
SyncPost(accounts, platforms) ==
    [status |-> IF platforms = {} THEN "failed" ELSE "published",
     platformPostIds |-> platforms,
     socialMediaAccounts |-> accounts,
     analytics |-> NullAnalytics]

IdleRun ==
    [pc |-> "idle", postId |-> "none", idx |-> 0, analyticsResults |-> <<>>,
     attempted |-> <<>>, skipped |-> <<>>, error |-> "none"]

IdleSync ==
    [posts |-> [p \in SyncPostIds |-> SyncPost(<<>>, {})],
     job |-> NoJob, recurring |-> FALSE, run |-> IdleRun]

\* The loop of the handler from its current account on, as far as it runs
\* without waiting: the token is decrypted (outside the try of the account, so
\* an error leaves the loop), an account whose platform has no id or no fetch
\* is passed over, and the loop stops at the first fetch, at its end or at
\* the error.
RECURSIVE SyncLoop(_, _)
SyncLoop(run, post) ==
    IF run.idx > Len(post.socialMediaAccounts) THEN [run EXCEPT !.pc = "done"]
    ELSE LET account == post.socialMediaAccounts[run.idx]
         IN  IF ~Decrypt(account.accessToken).ok
             THEN [run EXCEPT !.pc = "threw",
                              !.error = Decrypt(account.accessToken).text]
             ELSE IF account.platform \notin post.platformPostIds
             THEN SyncLoop([run EXCEPT !.idx = @ + 1], post)
             ELSE IF account.platform \notin FetchPlatforms
             THEN SyncLoop([run EXCEPT !.idx = @ + 1], post)
             ELSE [run EXCEPT !.pc = "fetch", !.attempted = Append(@, account.name)]

\* The handler goes on from `run`: it waits for the fetch it has started, or
\* returns analyticsResults, or rethrows to the queue.
SyncProceed(run) ==
    IF run.pc = "fetch"
    THEN sync' = [sync EXCEPT !.run = run, !.job.state = "active"]
    ELSE IF run.pc = "done"
    THEN sync' = [sync EXCEPT
            !.run = [run EXCEPT !.pc = "idle"],
            !.job = MoveToCompleted(@, [kind |-> "result",
                                        results |-> run.analyticsResults])]
    ELSE sync' = [sync EXCEPT
            !.run = [run EXCEPT !.pc = "idle"],
            !.job = MoveToFailed(@, run.error)]

\* What findOne gives the handler: the post of job.data.postId; for a job
\* without postId the lookup has no id to go by, and may find nothing, throw,
\* or come back with some post.
SyncLookups ==
    IF sync.job.postId = NoPostId THEN {"null", "throw"} \cup SyncPostIds
    ELSE {sync.job.postId}

\* The worker takes the job and the handler runs to its first fetch.
SyncStart ==
    /\ sync.run.pc = "idle"
    /\ sync.job.state = "waiting" \/ (sync.job.state = "delayed" /\ sync.job.runAt <= Now)
    /\ \E found \in SyncLookups :
         IF found = "throw"
         THEN sync' = [sync EXCEPT !.job = MoveToFailed(@, "lookup failed")]
         ELSE IF found = "null"
         THEN sync' = [sync EXCEPT !.job = MoveToCompleted(@, [kind |-> "skipped",
                                                               results |-> <<>>])]
         ELSE SyncProceed(SyncLoop([IdleRun EXCEPT !.postId = found, !.idx = 1],
                                   sync.posts[found]))
    /\ UNCHANGED <<core, updaters, twitter, analytics, accountStore, queueService>>

\* Variant of FetchFailed: the failure ends the loop.
FetchFailedEndsLoop(run, post) ==
    [run EXCEPT !.idx = Len(post.socialMediaAccounts) + 1,
                !.skipped = Append(@, post.socialMediaAccounts[run.idx].name)]

\* The catch of one account: the error is logged and the loop goes on with
\* the next account.
FetchFailed(run, post) ==
    [run EXCEPT !.idx = @ + 1,
                !.skipped = Append(@, post.socialMediaAccounts[run.idx].name)]

\* The fetch of the current account ends: its analytics go into
\* analyticsResults and updateAnalytics merges them into the post, or the
\* error is logged; the loop goes on.
SyncFetched ==
    LET run == sync.run
        post == sync.posts[run.postId]
        account == post.socialMediaAccounts[run.idx]
    IN  /\ run.pc = "fetch"
        /\ \E ok \in BOOLEAN :
             LET merged == IF ok
                           THEN [post EXCEPT !.analytics =
                                    MergeAnalytics(@, account.platform,
                                                   PlatformReport(account.platform))]
                           ELSE post
                 after == IF ok
                          THEN [run EXCEPT !.idx = @ + 1,
                                   !.analyticsResults = Append(@, account.platform)]
                          ELSE FetchFailed(run, post)
                 next == SyncLoop(after, merged)
             IN  sync' = [sync EXCEPT
                    !.posts[run.postId] = merged,
                    !.run = IF next.pc = "fetch" THEN next
                            ELSE [next EXCEPT !.pc = "idle"],
                    !.job = IF next.pc = "fetch" THEN @
                            ELSE IF next.pc = "done"
                            THEN MoveToCompleted(@, [kind |-> "result",
                                                     results |-> next.analyticsResults])
                            ELSE MoveToFailed(@, next.error)]
        /\ UNCHANGED <<core, updaters, twitter, analytics, accountStore, queueService>>

\* Time passes for the job waiting for its retry.
SyncTick ==
    /\ sync.job.state = "delayed"
    /\ sync.job.runAt > Now
    /\ sync' = [sync EXCEPT !.job.runAt = Later(@)]
    /\ UNCHANGED <<core, updaters, twitter, analytics, accountStore, queueService>>

\* ------------------------------------------------ social media accounts
\* The document ids of accounts, in the order they are given out.
AccountOrder == <<"a1", "a2">>

AccountIds == {AccountOrder[i] : i \in DOMAIN AccountOrder}

\* The tokens a provider hands out; "" is a token the response does not have.
PlainTokens == {"tok_a", "tok_b"}

ConnectPlatforms == {"facebook", "instagram", "twitter", "linkedin", "tiktok"}

\* expiresIn of a token response, in time units.
ExpiresIn == 2

NoAccount ==
    [exists |-> FALSE, platform |-> "none", accessToken |-> "", refreshToken |-> "",
     tokenExpiry |-> NoDate, connectionStatus |-> "none"]

NoResponse == [op |-> "none", id |-> "none", status |-> 0]

NoAccounts ==
    [accounts |-> [a \in AccountIds |-> NoAccount],
     job |-> NoJob, jobData |-> [accountId |-> "none"],
     response |-> NoResponse]

\* Variant of RefreshSupported: every platform is refreshed as Twitter is.
RefreshSupportedAll(platform) == TRUE

\* case 'twitter' of the endpoint, account.platform === 'twitter' of the worker.
RefreshSupported(platform) == platform = "twitter"

\* The account create of the callback writes for each platform.
ConnectedAccount(platform, tokenData) ==
    [NoAccount EXCEPT
        !.exists = TRUE,
        !.platform = platform,
        !.accessToken = Encrypt(tokenData.accessToken),
        !.refreshToken = IF platform = "twitter" THEN Encrypt(tokenData.refreshToken)
                         ELSE "",
        !.tokenExpiry = Now + ExpiresIn,
        !.connectionStatus = "connected"]

\* The update both token refreshes write.
RefreshedAccount(account, newTokenData) ==
    [account EXCEPT
        !.accessToken = Encrypt(newTokenData.accessToken),
        !.refreshToken = Encrypt(newTokenData.refreshToken),
        !.tokenExpiry = Now + ExpiresIn]

\* The token responses a provider can give.
TokenResponses ==
    [accessToken : PlainTokens, refreshToken : {"tok_a", ""}]

\* GET /social-media-accounts/callback/:platform : the code is exchanged for
\* tokens and the account is created with the tokens encrypted; a platform
\* without a case is a bad request, a provider error a server error.
Callback(platform) ==
    /\ \E i \in DOMAIN AccountOrder :
         LET a == AccountOrder[i] IN
         /\ ~accountStore.accounts[a].exists
         /\ \A k \in 1..(i - 1) : accountStore.accounts[AccountOrder[k]].exists
         /\ IF platform \notin {"facebook", "instagram", "twitter", "linkedin"}
            THEN accountStore' = [accountStore EXCEPT
                    !.response = [op |-> "callback", id |-> "none", status |-> 400]]
            ELSE \/ accountStore' = [accountStore EXCEPT
                        !.response = [op |-> "callback", id |-> "none", status |-> 500]]
                 \/ \E tokenData \in TokenResponses :
                      accountStore' = [accountStore EXCEPT
                        !.accounts[a] = ConnectedAccount(platform, tokenData),
                        !.response = [op |-> "callback", id |-> a, status |-> 200]]
    /\ UNCHANGED <<core, updaters, twitter, analytics, sync, queueService>>

\* POST /social-media-accounts/:id/disconnect
Disconnect(id) ==
    /\ accountStore.accounts[id].exists
    /\ accountStore' = [accountStore EXCEPT
            !.accounts[id].connectionStatus = "disconnected",
            !.response = [op |-> "disconnect", id |-> id, status |-> 200]]
    /\ UNCHANGED <<core, updaters, twitter, analytics, sync, queueService>>

\* POST /social-media-accounts/:id/refresh-token
RefreshToken(id) ==
    LET account == accountStore.accounts[id]
        answer(status) == [op |-> "refresh", id |-> id, status |-> status]
    IN  /\ IF ~account.exists
           THEN accountStore' = [accountStore EXCEPT !.response = answer(404)]
           ELSE IF ~RefreshSupported(account.platform)
           THEN accountStore' = [accountStore EXCEPT !.response = answer(400)]
           ELSE IF ~Decrypt(account.refreshToken).ok
           THEN accountStore' = [accountStore EXCEPT !.response = answer(500)]
           ELSE \/ accountStore' = [accountStore EXCEPT !.response = answer(500)]
                \/ \E newTokenData \in TokenResponses :
                     accountStore' = [accountStore EXCEPT
                        !.accounts[id] = RefreshedAccount(account, newTokenData),
                        !.response = answer(200)]
        /\ UNCHANGED <<core, updaters, twitter, analytics, sync, queueService>>

\* The handler of the token-refresh queue runs for the job.
RefreshJobRun ==
    LET job == accountStore.job
        id == accountStore.jobData.accountId
        account == accountStore.accounts[id]
    IN  /\ job.state = "waiting" \/ (job.state = "delayed" /\ job.runAt <= Now)
        /\ IF ~account.exists
           THEN accountStore' = [accountStore EXCEPT
                    !.job = MoveToFailed(@, "Account not found")]
           ELSE IF ~RefreshSupported(account.platform)
           THEN accountStore' = [accountStore EXCEPT
                    !.job = MoveToCompleted(@, [kind |-> "skipped", results |-> <<>>])]
           ELSE IF ~Decrypt(account.refreshToken).ok
           THEN accountStore' = [accountStore EXCEPT
                    !.job = MoveToFailed(@, Decrypt(account.refreshToken).text)]
           ELSE \/ accountStore' = [accountStore EXCEPT
                        !.job = MoveToFailed(@, "refresh failed")]
                \/ \E newTokenData \in TokenResponses :
                     accountStore' = [accountStore EXCEPT
                        !.accounts[id] = RefreshedAccount(account, newTokenData),
                        !.job = MoveToCompleted(@, [kind |-> "result",
                                                    results |-> <<>>])]
        /\ UNCHANGED <<core, updaters, twitter, analytics, sync, queueService>>

\* Time passes for the job waiting for its retry.
AccountTick ==
    /\ accountStore.job.state = "delayed"
    /\ accountStore.job.runAt > Now
    /\ accountStore' = [accountStore EXCEPT
            !.accounts = [a \in AccountIds |-> [@[a] EXCEPT !.tokenExpiry = Later(@)]],
            !.job.runAt = Later(@)]
    /\ UNCHANGED <<core, updaters, twitter, analytics, sync, queueService>>

\* ---------------------------------------------------------- queue service
\* The calls of one client, made one after the other, and the queue moving
\* its jobs on at any time.
\* The queue initializeQueues creates that the operations below are called
\* on, and a name that no queue was created for.
ScheduledQueue == "social-post-scheduled"

QueueNames == {ScheduledQueue, "reports"}

MaxQueueJobs == 2

QueueJobIds == 1..MaxQueueJobs

\* post.priority of the post that schedulePost is called with; "none" is a
\* post without the field.
PriorityTags == {"urgent", "high", "normal", "low", "vip", "none"}

\* The five counts of getQueueStats, in the order they are asked for.
CountedStates == <<"waiting", "active", "completed", "failed", "delayed">>

NoQueueJob == [queue |-> "none", tag |-> "none", job |-> NoJob]

NoOutcome ==
    [op |-> "none", queue |-> "none", missing |-> FALSE, delay |-> 0,
     outcome |-> "none", error |-> "none", total |-> 0, least |-> 0, most |-> 0]

\* getQueueStats in progress; least and most are the smallest and the largest
\* number of jobs the queue has held since the call.
NoStats ==
    [pc |-> "idle", queue |-> "none", counts |-> <<>>, least |-> 0, most |-> 0]

IdleQueueService ==
    [queues |-> {},
     jobs |-> [j \in QueueJobIds |-> NoQueueJob],
     nextId |-> 1,
     stats |-> NoStats,
     last |-> NoOutcome]

QueueNotFound(queueName) == "Queue not found"

\* The number of jobs of the queue that are in the state.
CountIn(qjobs, queueName, state) ==
    Cardinality({j \in QueueJobIds :
                    qjobs[j].queue = queueName /\ qjobs[j].job.state = state})

\* The number of jobs the queue holds.
JobsIn(qjobs, queueName) ==
    Cardinality({j \in QueueJobIds :
                    /\ qjobs[j].queue = queueName
                    /\ qjobs[j].job.state \notin {"none", "removed"}})

Min(a, b) == IF a < b THEN a ELSE b

Max(a, b) == IF a > b THEN a ELSE b

RECURSIVE SumSeq(_)
SumSeq(seq) == IF seq = <<>> THEN 0 ELSE Head(seq) + SumSeq(Tail(seq))

\* The service goes to state qs; while getQueueStats is reading, the number
\* of jobs its queue holds is followed.
Commit(qs) ==
    queueService' =
        IF qs.stats.pc = "reading"
        THEN [qs EXCEPT
                !.stats.least = Min(@, JobsIn(qs.jobs, qs.stats.queue)),
                !.stats.most = Max(@, JobsIn(qs.jobs, qs.stats.queue))]
        ELSE qs

\* addJob as the service runs it: the queue of the name is taken or created,
\* and the job is added with the options as given.
ServiceAddJob(qs, queueName, tag, options, op) ==
    [qs EXCEPT
        !.queues = @ \cup {queueName},
        !.jobs[qs.nextId] = [queue |-> queueName, tag |-> tag,
                             job |-> AddJob([postId |-> "p1"], options)],
        !.nextId = @ + 1,
        !.last = [NoOutcome EXCEPT
                    !.op = op, !.queue = queueName,
                    !.missing = queueName \notin qs.queues,
                    !.delay = options.delay,
                    !.outcome = "ok"]]

\* An operation that threw to its caller.
ServiceThrew(qs, queueName, op, delay, error) ==
    [qs EXCEPT
        !.last = [NoOutcome EXCEPT
                    !.op = op, !.queue = queueName,
                    !.missing = queueName \notin qs.queues,
                    !.delay = delay,
                    !.outcome = "threw", !.error = error]]

\* addJob(queueName, type, data, options) with a delay option.
QueueAddJob(queueName, delay) ==
    /\ queueService.stats.pc = "idle"
    /\ queueService.nextId \in QueueJobIds
    /\ Commit(ServiceAddJob(queueService, queueName, "none",
                            [priority |-> 0, attempts |-> 0, delay |-> delay],
                            "addJob"))
    /\ UNCHANGED <<core, updaters, twitter, analytics, sync, accountStore>>

\* addScheduledJob(queueName, type, data, scheduledTime, options)
QueueAddScheduledJob(queueName, scheduledTime) ==
    LET options == [priority |-> 0, attempts |-> 0, delay |-> 0]
        added == AddScheduledJob([postId |-> "p1"], scheduledTime, options)
    IN  /\ queueService.stats.pc = "idle"
        /\ queueService.nextId \in QueueJobIds
        /\ IF added.ok
           THEN Commit(ServiceAddJob(queueService, queueName, "none",
                                     [options EXCEPT !.delay = scheduledTime - Now],
                                     "addScheduledJob"))
           ELSE Commit(ServiceThrew(queueService, queueName, "addScheduledJob",
                                    scheduledTime - Now,
                                    "Scheduled time must be in the future"))
        /\ UNCHANGED <<core, updaters, twitter, analytics, sync, accountStore>>

\* The queue call of schedulePost for a post with the priority tag and the
\* date: addScheduledJob on the scheduled queue with getPriority of the tag.
ScheduleWithPriority(tag, date) ==
    LET options == [priority |-> GetPriority(tag), attempts |-> 0, delay |-> 0]
        added == AddScheduledJob([postId |-> "p1"], date, options)
    IN  /\ queueService.stats.pc = "idle"
        /\ queueService.nextId \in QueueJobIds
        /\ IF ScheduleError(date) # "" \/ ~added.ok
           THEN Commit(ServiceThrew(queueService, ScheduledQueue, "schedulePost",
                                    date - Now, "Scheduled time must be in the future"))
           ELSE Commit(ServiceAddJob(queueService, ScheduledQueue, tag,
                                     [options EXCEPT !.delay = date - Now],
                                     "schedulePost"))
        /\ UNCHANGED <<core, updaters, twitter, analytics, sync, accountStore>>

\* getJob(queueName, jobId) as the service runs it: the job, or null; the
\* not-found error of a missing queue is caught and logged, and null is
\* returned.
ServiceGetJob(qs, queueName, j) ==
    IF queueName \notin qs.queues THEN NoJob
    ELSE IF qs.jobs[j].queue # queueName THEN NoJob
    ELSE IF qs.jobs[j].job.state \in {"none", "removed"} THEN NoJob
    ELSE qs.jobs[j].job

\* getJob(queueName, jobId) called by a client of the service.
QueueGetJob(queueName, j) ==
    /\ queueService.stats.pc = "idle"
    /\ Commit([queueService EXCEPT
            !.last = [NoOutcome EXCEPT
                        !.op = "getJob", !.queue = queueName,
                        !.missing = queueName \notin queueService.queues,
                        !.outcome = IF ServiceGetJob(queueService, queueName, j) = NoJob
                                    THEN "null" ELSE "job"]])
    /\ UNCHANGED <<core, updaters, twitter, analytics, sync, accountStore>>

\* removeJob(queueName, jobId): the job getJob gives is removed, no job is
\* nothing to do; the error of a refused remove is rethrown.
QueueRemoveJob(queueName, j) ==
    LET job == ServiceGetJob(queueService, queueName, j)
        done == [NoOutcome EXCEPT
                    !.op = "removeJob", !.queue = queueName,
                    !.missing = queueName \notin queueService.queues,
                    !.outcome = "ok"]
    IN  /\ queueService.stats.pc = "idle"
        /\ IF job = NoJob
           THEN Commit([queueService EXCEPT !.last = done])
           ELSE IF Locked(job)
           THEN Commit(ServiceThrew(queueService, queueName, "removeJob", 0,
                                    "job is locked"))
           ELSE Commit([queueService EXCEPT
                            !.jobs[j].job.state = "removed", !.last = done])
        /\ UNCHANGED <<core, updaters, twitter, analytics, sync, accountStore>>

\* getQueueStats(queueName) is called: a missing queue is an error that is
\* rethrown, otherwise the five counts are asked for.
QueueStatsCall(queueName) ==
    /\ queueService.stats.pc = "idle"
    /\ IF queueName \notin queueService.queues
       THEN Commit(ServiceThrew(queueService, queueName, "getQueueStats", 0,
                                QueueNotFound(queueName)))
       ELSE Commit([queueService EXCEPT
                        !.last = NoOutcome,
                        !.stats = [NoStats EXCEPT
                            !.pc = "reading", !.queue = queueName,
                            !.least = JobsIn(queueService.jobs, queueName),
                            !.most = JobsIn(queueService.jobs, queueName)]])
    /\ UNCHANGED <<core, updaters, twitter, analytics, sync, accountStore>>

\* The queue answers the next of the five counts; with the fifth the stats
\* are returned, total being the sum of the counts.
QueueStatsCount ==
    LET stats == queueService.stats
        state == CountedStates[Len(stats.counts) + 1]
        counts == Append(stats.counts, CountIn(queueService.jobs, stats.queue, state))
    IN  /\ stats.pc = "reading"
        /\ IF Len(counts) < Len(CountedStates)
           THEN Commit([queueService EXCEPT !.stats.counts = counts])
           ELSE Commit([queueService EXCEPT
                    !.stats = NoStats,
                    !.last = [NoOutcome EXCEPT
                                !.op = "getQueueStats", !.queue = stats.queue,
                                !.outcome = "ok", !.total = SumSeq(counts),
                                !.least = stats.least, !.most = stats.most]])
        /\ UNCHANGED <<core, updaters, twitter, analytics, sync, accountStore>>

\* The queue and its worker move a job on: a delayed job whose time has come
\* waits, a waiting job is taken, an active job completes or fails.
QueueMove(j) ==
    LET state == queueService.jobs[j].job.state IN
    /\ \E to \in {"waiting", "active", "completed", "failed"} :
         /\ \/ state = "delayed" /\ to = "waiting"
            \/ state = "waiting" /\ to = "active"
            \/ state = "active" /\ to \in {"completed", "failed"}
         /\ Commit([queueService EXCEPT !.jobs[j].job.state = to])
    /\ UNCHANGED <<core, updaters, twitter, analytics, sync, accountStore>>


\* ---------------------------------------------------------- specification
NewPost(accounts) ==
    [status |-> "draft", priority |-> "normal", scheduledPublishDate |-> NoDate,
     platformPostIds |-> EmptyMap,
     platformUrls |-> EmptyMap, errorLog |-> <<>>,
     socialMediaAccounts |-> accounts]

Init ==
    /\ storeFaults = FALSE
    /\ posts \in [PostIds -> {NewPost(a) : a \in AccountLists}]
    /\ jobs = [j \in JobIds |-> NoJob]
    /\ nextJobId = 1
    /\ calls = [c \in Callers |-> IdleCall]
    /\ http = IdleHttp
    /\ twitter = IdleTwitter
    /\ analytics = NoAnalytics
    /\ sync = IdleSync
    /\ accountStore = NoAccounts
    /\ queueService = IdleQueueService
    /\ updaters = NoUpdaters

Next ==
    \/ \E c \in Callers : PublishBegin(c)
    \/ \E c \in Callers : PublishResolve(c)
    \/ \E j \in JobIds : JobStart(j)
    \/ \E j \in JobIds : HandlerFinish(j)
    \/ \E p \in PostIds : HttpPublish(p)
    \/ \E p \in PostIds : HttpBulkPublish(p)
    \/ HttpPublishEnd
    \/ \E p \in PostIds, d \in (Now - 1)..(Now + MaxAhead) : HttpSchedule(p, d)
    \/ \E p \in PostIds : ServiceSchedule(p)
    \/ SchedulePostRun
    \/ SchedulePostSetStatus
    \/ \E p \in PostIds, j \in JobIds : HttpCancel(p, j)
    \/ CancelRemove
    \/ CancelSetDraft
    \/ HttpRespond
    \/ Tick

\* The content store always answers.
Spec == Init /\ [][Next]_vars

\* The same system with a content store that may fail to answer any call.
InitStoreFault ==
    /\ storeFaults = TRUE
    /\ posts \in [PostIds -> {NewPost(a) : a \in AccountLists}]
    /\ jobs = [j \in JobIds |-> NoJob]
    /\ nextJobId = 1
    /\ calls = [c \in Callers |-> IdleCall]
    /\ http = IdleHttp
    /\ twitter = IdleTwitter
    /\ analytics = NoAnalytics
    /\ sync = IdleSync
    /\ accountStore = NoAccounts
    /\ queueService = IdleQueueService
    /\ updaters = NoUpdaters

SpecStoreFault == InitStoreFault /\ [][Next]_vars


\* Publishing to Twitter, on its own: the store and the queue stay as they are.
InitTwitter ==
    /\ storeFaults = FALSE
    /\ posts = [p \in PostIds |-> NewPost(<<>>)]
    /\ jobs = [j \in JobIds |-> NoJob]
    /\ nextJobId = 1
    /\ calls = [c \in Callers |-> IdleCall]
    /\ http = IdleHttp
    /\ analytics = NoAnalytics
    /\ sync = IdleSync
    /\ accountStore = NoAccounts
    /\ queueService = IdleQueueService
    /\ updaters = NoUpdaters
    /\ \E content \in Contents, hashtags \in HashtagLists,
          mentions \in MentionLists, mediaIds \in MediaLists :
          twitter = [IdleTwitter EXCEPT
                        !.pc = "input", !.content = content, !.hashtags = hashtags,
                        !.mentions = mentions, !.mediaIds = mediaIds]

NextTwitter ==
    \/ SplitText
    \/ PublishTwitter
    \/ PostThreadCall
    \/ ThreadSend
    \/ ThreadResponse
    \/ TweetResponse

SpecTwitter == InitTwitter /\ [][NextTwitter]_vars

\* Analytics of one post, on its own.
InitAnalytics ==
    /\ storeFaults = FALSE
    /\ posts = [p \in PostIds |-> NewPost(<<>>)]
    /\ jobs = [j \in JobIds |-> NoJob]
    /\ nextJobId = 1
    /\ calls = [c \in Callers |-> IdleCall]
    /\ http = IdleHttp
    /\ twitter = IdleTwitter
    /\ sync = IdleSync
    /\ accountStore = NoAccounts
    /\ queueService = IdleQueueService
    /\ updaters = NoUpdaters
    /\ \E stored \in {NullAnalytics, ZeroAnalytics} :
          analytics = [NoAnalytics EXCEPT !.stored = stored]

NextAnalytics ==
    \/ \E platform \in SyncedPlatforms, data \in AnalyticsData :
          UpdateAnalyticsRead(platform, data)
    \/ UpdateAnalyticsWrite

SpecAnalytics == InitAnalytics /\ [][NextAnalytics]_vars

\* The analytics-sync queue on its own: a job for post s1, or the recurring
\* job bootstrap adds (its data has no postId), waits to be taken.
InitSync ==
    /\ storeFaults = FALSE
    /\ posts = [p \in PostIds |-> NewPost(<<>>)]
    /\ jobs = [j \in JobIds |-> NoJob]
    /\ nextJobId = 1
    /\ calls = [c \in Callers |-> IdleCall]
    /\ http = IdleHttp
    /\ twitter = IdleTwitter
    /\ analytics = NoAnalytics
    /\ accountStore = NoAccounts
    /\ queueService = IdleQueueService
    /\ updaters = NoUpdaters
    /\ \E accounts \in SyncAccountLists, recurring \in BOOLEAN :
       \E platforms \in SUBSET {accounts[i].platform : i \in DOMAIN accounts} :
          sync = [IdleSync EXCEPT
                    !.posts = [p \in SyncPostIds |->
                                 IF p = "s1" THEN SyncPost(accounts, platforms)
                                 ELSE SyncPost(PickSyncAccounts({1}), {"facebook"})],
                    !.recurring = recurring,
                    !.job = AddJob([postId |-> IF recurring THEN NoPostId ELSE "s1"],
                                   [priority |-> 0, attempts |-> 0, delay |-> 0])]

NextSync ==
    \/ SyncStart
    \/ SyncFetched
    \/ SyncTick

SpecSync == InitSync /\ [][NextSync]_vars

\* The accounts on their own: none is connected yet, and a token-refresh job
\* for one of the account ids waits to be taken.
InitAccounts ==
    /\ storeFaults = FALSE
    /\ posts = [p \in PostIds |-> NewPost(<<>>)]
    /\ jobs = [j \in JobIds |-> NoJob]
    /\ nextJobId = 1
    /\ calls = [c \in Callers |-> IdleCall]
    /\ http = IdleHttp
    /\ twitter = IdleTwitter
    /\ analytics = NoAnalytics
    /\ sync = IdleSync
    /\ queueService = IdleQueueService
    /\ updaters = NoUpdaters
    /\ \E id \in AccountIds :
          accountStore = [NoAccounts EXCEPT
                !.jobData = [accountId |-> id],
                !.job = AddJob([postId |-> "none"],
                               [priority |-> 0, attempts |-> 0, delay |-> 0])]

NextAccounts ==
    \/ \E platform \in ConnectPlatforms : Callback(platform)
    \/ \E id \in AccountIds : Disconnect(id)
    \/ \E id \in AccountIds : RefreshToken(id)
    \/ RefreshJobRun
    \/ AccountTick

SpecAccounts == InitAccounts /\ [][NextAccounts]_vars

\* The queue service on its own, after initializeQueues: the scheduled queue
\* exists and is empty.
InitQueue ==
    /\ storeFaults = FALSE
    /\ posts = [p \in PostIds |-> NewPost(<<>>)]
    /\ jobs = [j \in JobIds |-> NoJob]
    /\ nextJobId = 1
    /\ calls = [c \in Callers |-> IdleCall]
    /\ http = IdleHttp
    /\ twitter = IdleTwitter
    /\ analytics = NoAnalytics
    /\ sync = IdleSync
    /\ accountStore = NoAccounts
    /\ queueService = [IdleQueueService EXCEPT !.queues = {ScheduledQueue}]
    /\ updaters = NoUpdaters

NextQueue ==
    \/ \E queueName \in QueueNames, delay \in -1..1 : QueueAddJob(queueName, delay)
    \/ \E queueName \in QueueNames, scheduledTime \in -1..1 :
          QueueAddScheduledJob(queueName, scheduledTime)
    \/ \E tag \in PriorityTags, date \in 0..1 : ScheduleWithPriority(tag, date)
    \/ \E queueName \in QueueNames, j \in QueueJobIds : QueueGetJob(queueName, j)
    \/ \E queueName \in QueueNames, j \in QueueJobIds : QueueRemoveJob(queueName, j)
    \/ \E queueName \in QueueNames : QueueStatsCall(queueName)
    \/ QueueStatsCount
    \/ \E j \in QueueJobIds : QueueMove(j)

SpecQueue == InitQueue /\ [][NextQueue]_vars

\* Two calls of updateAnalytics on one post, each made once.
InitUpdaters ==
    /\ storeFaults = FALSE
    /\ posts = [p \in PostIds |-> NewPost(<<>>)]
    /\ jobs = [j \in JobIds |-> NoJob]
    /\ nextJobId = 1
    /\ calls = [c \in Callers |-> IdleCall]
    /\ http = IdleHttp
    /\ twitter = IdleTwitter
    /\ analytics = NoAnalytics
    /\ sync = IdleSync
    /\ accountStore = NoAccounts
    /\ queueService = IdleQueueService
    /\ \E stored \in {NullAnalytics, ZeroAnalytics} :
          updaters = [NoUpdaters EXCEPT !.stored = stored]

NextUpdaters ==
    \/ \E u \in Updaters, platform \in SyncedPlatforms, data \in AnalyticsData :
          ConcurrentRead(u, platform, data)
    \/ \E u \in Updaters : ConcurrentWrite(u)

SpecUpdaters == InitUpdaters /\ [][NextUpdaters]_vars

\* ============================================================= properties
\* A call of publishPost returns in this step.
Returns(c) == calls[c].pc # "returned" /\ calls'[c].pc = "returned"

\* How many entries of a result list are about the account of this name.
EntriesFor(list, name) ==
    Cardinality({k \in DOMAIN list : list[k].accountName = name})

\* C1: when publishPost returns for a post with at least one linked account,
\* the stored status is published if at least one account's publish succeeded
\* (whatever failed beside it) and failed if none did.
C1_FinalStatus ==
    [][\A c \in Callers :
         (Returns(c) /\ Len(calls'[c].accounts) >= 1) =>
            posts'[calls'[c].postId].status =
                IF Len(calls'[c].results.success) >= 1 THEN "published" ELSE "failed"]_vars

C1_Witness ==
    \E c \in Callers :
        /\ calls[c].pc = "returned"
        /\ Len(calls[c].results.success) >= 1
        /\ Len(calls[c].results.failed) >= 1
        /\ posts[calls[c].postId].status = "published"

\* C2: the success and failed lists publishPost returns for a post with K >= 1
\* linked accounts have K entries together, and every linked account has
\* exactly one entry, in one of the two lists.
C2_EveryAccountOnce ==
    \A c \in Callers :
        (calls[c].pc = "returned" /\ Len(calls[c].accounts) >= 1) =>
            /\ Len(calls[c].results.success) + Len(calls[c].results.failed)
                  = Len(calls[c].accounts)
            /\ \A i \in DOMAIN calls[c].accounts :
                  EntriesFor(calls[c].results.success, calls[c].accounts[i].name)
                  + EntriesFor(calls[c].results.failed, calls[c].accounts[i].name) = 1

C2_Witness ==
    \E c \in Callers :
        /\ calls[c].pc = "returned"
        /\ Len(calls[c].accounts) = 2
        /\ Len(calls[c].results.success) = 1
        /\ Len(calls[c].results.failed) = 1

\* C3: a call of publishPost for a post with linked accounts never ends by
\* raising; when it returns, every account whose token decrypts and whose
\* platform is supported had its adapter invoked, whatever happened to the
\* accounts before it, and every account that could not be dispatched is in
\* the failed list with the error it threw.
C3_FailuresContained ==
    \A c \in Callers :
        Len(calls[c].accounts) >= 1 =>
            /\ calls[c].pc # "raised"
            /\ calls[c].pc = "returned" =>
                 \A i \in DOMAIN calls[c].accounts :
                    LET account == calls[c].accounts[i]
                        step == PublishToPlatform(account)
                    IN  IF step.kind = "adapter"
                        THEN \E k \in DOMAIN calls[c].invoked :
                                calls[c].invoked[k] = account.name
                        ELSE \E k \in DOMAIN calls[c].results.failed :
                                /\ calls[c].results.failed[k].accountName = account.name
                                /\ calls[c].results.failed[k].error = step.error

C3_Witness ==
    \E c \in Callers :
        /\ calls[c].pc = "returned"
        /\ Len(calls[c].accounts) = 2
        /\ calls[c].accounts[1].name = "tw_main"
        /\ calls[c].results.failed[1].error = "Failed to decrypt data"
        /\ calls[c].invoked = <<"fb_page">>
        /\ Len(calls[c].results.success) = 1

\* C4: a stored post whose status is published has at least one entry in
\* platformPostIds.
C4_PublishedHasIds ==
    \A p \in PostIds :
        posts[p].status = "published" => DOMAIN posts[p].platformPostIds # {}

C4_Witness ==
    \E p \in PostIds, j \in JobIds :
        /\ posts[p].status = "published"
        /\ DOMAIN posts[p].platformPostIds # {}
        /\ jobs[j].state = "completed"
        /\ jobs[j].returnvalue.kind = "result"

\* C5: a call of publishPost whose outcome has been written has no attempt
\* pending or still to make: every account of the call has resolved into the
\* success or the failed list.
C5_WriteAfterAllResolved ==
    \A c \in Callers :
        (calls[c].wrote /\ Len(calls[c].accounts) >= 1) =>
            /\ calls[c].pc \notin {"loop", "await"}
            /\ calls[c].idx > Len(calls[c].accounts)
            /\ Len(calls[c].results.success) + Len(calls[c].results.failed)
                  = Len(calls[c].accounts)

C5_Witness ==
    \E c \in Callers :
        /\ calls[c].wrote
        /\ Len(calls[c].invoked) = 2
        /\ calls[c].pc = "returned"

\* C6: when the content store does not answer the write of the outcome,
\* publishPost does not return normally (the error reaches the caller).
C6_StoreErrorPropagates ==
    \A c \in Callers : calls[c].pc = "returned" => calls[c].wrote

\* C7: publishPost for a post with no linked account ends by raising the
\* error, with no adapter invoked and the post stored as failed with an
\* errorLog of one entry.
C7_NoAccountsFails ==
    [][\A c \in Callers :
         (calls[c].pc = "start" /\ calls'[c].pc # "start" /\ Len(calls[c].accounts) = 0) =>
            /\ calls'[c].pc = "raised"
            /\ calls'[c].invoked = <<>>
            /\ posts'[calls[c].postId].status = "failed"
            /\ Len(posts'[calls[c].postId].errorLog) = 1
            /\ posts'[calls[c].postId].errorLog[1].error = NoAccountsError]_vars

C7_Witness ==
    \E c \in Callers :
        /\ calls[c].pc = "raised"
        /\ calls[c].invoked = <<>>
        /\ posts[calls[c].postId].status = "failed"
        /\ Len(posts[calls[c].postId].errorLog) = 1

\* C8: attemptsMade never exceeds attempts (3 by default); a job whose handler
\* has failed attempts times is failed and a failed job never leaves that
\* state except by being removed; a job is retried while it has failed fewer
\* times; a completed job keeps the value its handler returned.
C8_AttemptsState ==
    \A j \in JobIds :
        jobs[j].state \notin {"none", "removed"} =>
            /\ jobs[j].attempts = DefaultAttempts
            /\ jobs[j].attemptsMade <= jobs[j].attempts
            /\ (jobs[j].attemptsMade = jobs[j].attempts) <=> (jobs[j].state = "failed")
            /\ jobs[j].state = "completed" => jobs[j].returnvalue.kind # "none"

C8_FailedIsFinal ==
    \A j \in JobIds :
        /\ jobs[j].state = "failed" => jobs'[j].state \in {"failed", "removed"}
        /\ jobs[j].state = "completed" =>
              \/ jobs'[j] = jobs[j]
              \/ jobs'[j].state = "removed"
        /\ (jobs[j].state = "active" /\ jobs'[j].state = "completed") =>
              jobs'[j].returnvalue = ResultValue(calls[j].results)

C8_RetryBudget == [](C8_AttemptsState) /\ [][C8_FailedIsFinal]_vars

C8_Witness ==
    \E j \in JobIds :
        /\ jobs[j].state = "completed"
        /\ jobs[j].attemptsMade = DefaultAttempts - 1
        /\ jobs[j].returnvalue.kind = "result"
        /\ Len(jobs[j].returnvalue.results.success) >= 1

\* C9: when an attempt of a scheduled-post job failed because publishPost
\* raised, the retried attempt calls publishPost again: it does not end as
\* skipped.
C9_RetryPublishesAgain ==
    \A j \in JobIds :
        (jobs[j].failedReason = NoAccountsError /\ jobs[j].state = "completed") =>
            jobs[j].returnvalue # Skipped

\* C10: schedulePost called with a date that is missing, past or equal to the
\* clock throws, adds no job to the queue and leaves the post as it is.
C10_InvalidDateRejected ==
    [][(/\ http.op = "schedule"
        /\ http.pc = "check"
        /\ http'.pc # "check"
        /\ (http.date = NoDate \/ http.date <= Now)) =>
            /\ http'.pc = "thrown"
            /\ jobs' = jobs
            /\ nextJobId' = nextJobId
            /\ posts' = posts]_vars

C10_Witness ==
    /\ http.op = "schedule"
    /\ http.pc = "thrown"
    /\ http.date = Now
    /\ nextJobId = 1
    /\ \A j \in JobIds : jobs[j].state = "none"

\* C11: schedulePost called with a date after the clock does not throw; it adds
\* exactly one job to the queue, delayed by scheduledTime - now, for that post,
\* and when it returns the post's stored status is scheduled.
C11_ScheduleEnqueuesOne ==
    [][/\ (/\ http.op = "schedule"
           /\ http.pc = "check"
           /\ http'.pc # "check"
           /\ http.date # NoDate
           /\ http.date > Now) =>
              /\ http'.pc = "setStatus"
              /\ nextJobId' = nextJobId + 1
              /\ jobs'[nextJobId].state = "delayed"
              /\ jobs'[nextJobId].runAt - Now = http.date - Now
              /\ jobs'[nextJobId].postId = http.postId
              /\ \A k \in JobIds \ {nextJobId} : jobs'[k] = jobs[k]
       /\ (/\ http.op = "schedule"
           /\ http.pc = "setStatus"
           /\ http'.pc # "setStatus") =>
              /\ posts'[http.postId].status = "scheduled"
              /\ jobs' = jobs]_vars

C11_Witness ==
    \E j \in JobIds :
        /\ http.op = "none"
        /\ jobs[j].state = "delayed"
        /\ jobs[j].attemptsMade = 0
        /\ jobs[j].runAt = Now + MaxAhead
        /\ posts[jobs[j].postId].status = "scheduled"
        /\ \A k \in JobIds \ {j} : jobs[k].state = "none"

\* C12: cancelScheduledPost for a job that is absent or has already run
\* (completed or failed) throws nothing and sets the post's status to draft;
\* for a job still delayed it removes the job, and a removed job never runs.
C12_CancelStep ==
    /\ (/\ http.op = "cancel"
        /\ http.pc = "remove"
        /\ http' # http
        /\ jobs[http.jobId].state \in {"none", "removed", "completed", "failed"}) =>
           /\ http'.pc = "setDraft"
           /\ jobs'[http.jobId].state \in {"none", "removed"}
    /\ (/\ http.op = "cancel"
        /\ http.pc = "remove"
        /\ http' # http
        /\ jobs[http.jobId].state \in {"delayed", "waiting"}) =>
           /\ http'.pc = "setDraft"
           /\ jobs'[http.jobId].state = "removed"
    /\ (/\ http.op = "cancel"
        /\ http.pc = "setDraft"
        /\ http' # http) =>
           posts'[http.postId].status = "draft"
    /\ \A j \in JobIds :
         jobs[j].state = "removed" => jobs'[j].state = "removed" /\ calls'[j].pc = "idle"

C12_CancelIdempotent == [][C12_CancelStep]_vars

C12_Witness ==
    /\ http.op = "cancel"
    /\ http.pc = "setDraft"
    /\ jobs[http.jobId].state = "removed"
    /\ posts[http.postId].status = "scheduled"

\* C13: a cancel for a job that is active is refused: it removes nothing,
\* writes nothing to the post and does not go on to set draft, and the job
\* stays with its worker until the handler ends; the post then holds what the
\* job's publishPost wrote.
C13_ActiveState ==
    /\ (http.op = "cancel" /\ http.pc = "setDraft") =>
           jobs[http.jobId].state # "active"
    /\ (http.op = "cancel" /\ http.pc = "thrown") =>
           jobs[http.jobId].state \in {"active", "completed", "delayed", "failed"}

C13_ActiveStep ==
    /\ (/\ http.op = "cancel"
        /\ http.pc \in {"remove", "thrown"}
        /\ http' # http
        /\ jobs[http.jobId].state = "active") =>
           /\ http'.pc \in {"thrown", "none"}
           /\ jobs' = jobs
           /\ calls' = calls
           /\ posts' = posts
    /\ \A j \in JobIds :
         jobs[j].state = "active" =>
            jobs'[j].state \in {"active", "completed", "delayed", "failed"}
    /\ \A j \in JobIds :
         (jobs[j].state = "active" /\ Returns(j)) =>
            posts'[calls'[j].postId].status \in {"published", "failed"}

C13_ActiveJobFinishes == [](C13_ActiveState) /\ [][C13_ActiveStep]_vars

C13_Witness ==
    /\ http.op = "cancel"
    /\ http.pc = "thrown"
    /\ jobs[http.jobId].state = "completed"
    /\ jobs[http.jobId].returnvalue.kind = "result"
    /\ posts[http.postId].status = "published"

\* C14: while an account attempt of a publishPost call is in flight, the
\* stored status of the post is publishing.
C14_StatusPublishing ==
    \A c \in Callers :
        calls[c].pc = "await" => posts[calls[c].postId].status = "publishing"

RECURSIVE Flatten(_)
Flatten(chunks) ==
    IF chunks = <<>> THEN <<>> ELSE Head(chunks) \o Flatten(Tail(chunks))

\* The words of a text: its tokens that are not empty.
Words(text) == SelectSeq(text, LAMBDA t : t.len > 0)

\* C16: for a text longer than 280 characters splitIntoTweets returns at
\* least 2 chunks, each at most 280 characters long.
C16_ChunksWithinLimit ==
    (twitter.pc = "split" /\ JoinLength(twitter.text) > TweetLimit) =>
        /\ Len(twitter.tweets) >= 2
        /\ \A k \in DOMAIN twitter.tweets : JoinLength(twitter.tweets[k]) <= TweetLimit

\* C17: the chunks splitIntoTweets returns, put one after the other, are the
\* words of the text in their order, each word whole and once; no chunk is
\* empty, and the first word of a chunk would not have fitted in the chunk
\* before it.
C17_WordsPreserved ==
    twitter.pc = "split" =>
        /\ Flatten(twitter.tweets) = Words(twitter.text)
        /\ \A k \in DOMAIN twitter.tweets : twitter.tweets[k] # <<>>
        /\ \A k \in 1..(Len(twitter.tweets) - 1) :
              JoinLength(Append(twitter.tweets[k], twitter.tweets[k + 1][1])) > TweetLimit

C17_Witness ==
    /\ twitter.pc = "split"
    /\ Len(twitter.tweets) = 2
    /\ Len(twitter.tweets[1]) = 2
    /\ JoinLength(twitter.tweets[1]) = TweetLimit

\* C18: when the formatted text is at most 280 characters, publishing to a
\* Twitter account sends the API one tweet, which carries that text and is not
\* a reply, and no thread is started.
C18_OneTweet ==
    (twitter.via = "publish" /\ JoinLength(twitter.text) <= TweetLimit) =>
        /\ twitter.pc \in {"tweet", "done", "failed"}
        /\ twitter.tweets = <<>>
        /\ Len(twitter.sent) = 1
        /\ twitter.sent[1].text = twitter.text
        /\ twitter.sent[1].reply = NoTweetId
        /\ twitter.text = FormatTwitterText(twitter.content, twitter.hashtags,
                                            twitter.mentions)

C18_Witness ==
    /\ twitter.via = "publish"
    /\ twitter.pc = "done"
    /\ JoinLength(twitter.text) = TweetLimit
    /\ Len(twitter.sent) = 1
    /\ Len(twitter.postedTweets) = 1

\* C19: postThread sends the tweets in chunk order, tweet k only when tweet
\* k - 1 has been answered with its id; the first tweet is no reply and alone
\* carries the media, every later tweet replies to the id of the tweet just
\* before it.
C19_ThreadOrder ==
    twitter.pc \in {"thread", "threadWait", "done", "failed"}
        /\ (twitter.via = "postThread" \/ NeedsThread(twitter.text)) =>
            /\ Len(twitter.sent) <= Len(twitter.tweets)
            /\ Len(twitter.sent) \in {Len(twitter.postedTweets),
                                      Len(twitter.postedTweets) + 1}
            /\ twitter.pc = "threadWait" <=>
                  (Len(twitter.sent) = Len(twitter.postedTweets) + 1
                     /\ twitter.pc # "failed")
            /\ \A k \in DOMAIN twitter.sent :
                  /\ twitter.sent[k].text = twitter.tweets[k]
                  /\ twitter.sent[k].media =
                        IF k = 1 THEN twitter.mediaIds ELSE <<>>
                  /\ IF k = 1 THEN twitter.sent[k].reply = NoTweetId
                     ELSE /\ twitter.sent[k].reply = twitter.postedTweets[k - 1].id
                          /\ twitter.sent[k].reply # NoTweetId
            /\ \A k, l \in DOMAIN twitter.postedTweets :
                  k # l => twitter.postedTweets[k].id # twitter.postedTweets[l].id

C19_Witness ==
    /\ twitter.via = "postThread"
    /\ twitter.pc = "done"
    /\ Len(twitter.sent) = 3
    /\ twitter.sent[1].media = <<"m1">>
    /\ twitter.sent[3].reply = twitter.postedTweets[2].id

\* The sum of a metric over the data last merged for each platform.
RECURSIVE SumMerged(_, _, _)
SumMerged(platforms, merged, metric) ==
    IF platforms = {} THEN 0
    ELSE LET p == CHOOSE x \in platforms : TRUE
         IN  merged[p][metric] + SumMerged(platforms \ {p}, merged, metric)

\* C20: after updateAnalytics calls, every platform-namespaced value is the
\* value last merged for that platform and every aggregate metric is the sum
\* of those values over the platforms.
C20_AggregatesAreSums ==
    (analytics.pc = "idle" /\ DOMAIN analytics.merged # {}) =>
        \A m \in Metrics :
            /\ \A p \in DOMAIN analytics.merged :
                  analytics.stored[PlatformKey(p, m)] = analytics.merged[p][m]
            /\ analytics.stored[AggregateKey(m)]
                  = SumMerged(DOMAIN analytics.merged, analytics.merged, m)

C20_Witness ==
    /\ analytics.pc = "idle"
    /\ DOMAIN analytics.merged = {"facebook", "twitter"}
    /\ analytics.stored[AggregateKey("likes")] = 15
    /\ analytics.stored[PlatformKey("twitter", "likes")] = 10
    /\ analytics.stored[PlatformKey("facebook", "likes")] = 5
    /\ analytics.stored[AggregateKey("views")] = 6

\* ------------------------------------------------------ analytics-sync job
SyncEligible(post) ==
    SelectSeq(post.socialMediaAccounts,
              LAMBDA a : a.platform \in post.platformPostIds
                         /\ a.platform \in FetchPlatforms)

Names(accounts) == [i \in DOMAIN accounts |-> accounts[i].name]

Range(seq) == {seq[i] : i \in DOMAIN seq}

\* C21: a failed fetch of one account never fails the job, and does not stop
\* the loop: a job that has returned its results has called the fetch for
\* every account of the post whose platform has an id and a fetch, each of
\* them is either in the results or was logged as failed, and what was
\* fetched is merged into the analytics of the post.
C21_FetchFailureSkipped ==
    LET run == sync.run
    IN  /\ (sync.job.state \in {"delayed", "failed"} /\ sync.job.failedReason # "none")
              => sync.job.failedReason \in {"Failed to decrypt data", "lookup failed"}
        /\ (sync.job.state = "completed" /\ sync.job.returnvalue.kind = "result")
              => LET post == sync.posts[run.postId]
                 IN  /\ run.attempted = Names(SyncEligible(post))
                     /\ \A i \in DOMAIN SyncEligible(post) :
                          LET a == SyncEligible(post)[i]
                          IN  /\ (a.platform \in Range(run.analyticsResults))
                                    # (a.name \in Range(run.skipped))
                              /\ a.platform \in Range(run.analyticsResults)
                                    => /\ PlatformKey(a.platform, "likes")
                                            \in DOMAIN post.analytics
                                       /\ post.analytics[PlatformKey(a.platform, "likes")]
                                            = PlatformReport(a.platform).likes

\* The fetch of the first account failed, the one of the second was made and
\* merged, and the job completed.
C21_Witness ==
    /\ sync.job.state = "completed"
    /\ sync.job.returnvalue.kind = "result"
    /\ Len(sync.run.attempted) = 2
    /\ sync.run.skipped = <<sync.run.attempted[1]>>
    /\ Len(sync.run.analyticsResults) = 1

\* C22: a run of the recurring job that has completed has called the fetch
\* for every platform with an id of every published post.
C22_RecurringRefreshesAll ==
    (sync.recurring /\ sync.job.state \in {"completed", "failed"})
        => \A p \in SyncPostIds :
             (sync.posts[p].status = "published" /\ sync.posts[p].platformPostIds # {})
                => /\ sync.run.postId = p
                   /\ sync.run.attempted = Names(SyncEligible(sync.posts[p]))

\* C23: a job whose handler hit a decryption failure is not attempted again:
\* it is failed for good.
C23_DecryptionNotRetried ==
    sync.job.failedReason = "Failed to decrypt data" => sync.job.state = "failed"

\* --------------------------------------------------------- stored tokens
StoredTokens ==
    UNION { {accountStore.accounts[a].accessToken, accountStore.accounts[a].refreshToken} :
            a \in {b \in AccountIds : accountStore.accounts[b].exists} }

\* C24: a stored accessToken or refreshToken is an output of encrypt: '' for
\* a token that was not given, otherwise a ciphertext (which decrypts to a
\* provider token); it is never a provider token in plaintext.
C24_TokensEncrypted ==
    \A t \in StoredTokens :
        t = "" \/ (t \notin PlainTokens /\ Decrypt(t).ok /\ Decrypt(t).text \in PlainTokens)

\* A Twitter account was connected without a refresh token and another
\* account had its tokens refreshed.
C24_Witness ==
    /\ \E a \in AccountIds :
         /\ accountStore.accounts[a].platform = "twitter"
         /\ accountStore.accounts[a].accessToken = Encrypt("tok_a")
         /\ accountStore.accounts[a].refreshToken = ""
    /\ accountStore.response = [op |-> "refresh", id |-> "a2", status |-> 200]
    /\ accountStore.accounts["a2"].accessToken = Encrypt("tok_b")

UnsupportedRefresh(id) ==
    /\ accountStore.accounts[id].exists
    /\ accountStore.accounts[id].platform \in {"facebook", "linkedin"}

\* C29 (as stated): a token refresh for a Facebook or LinkedIn account ends
\* in an error, from the endpoint and from the job alike: the endpoint
\* answers with an error status and the job does not complete.
C29_RefreshFails ==
    /\ (accountStore.response.op = "refresh" /\ accountStore.response.id \in AccountIds)
          => (UnsupportedRefresh(accountStore.response.id)
                 => accountStore.response.status = 400)
    /\ UnsupportedRefresh(accountStore.jobData.accountId)
          => accountStore.job.state # "completed"

\* C29 (amended): for a Facebook or LinkedIn account the endpoint answers 400
\* and the job completes as skipped without an error, and either of them
\* leaves the account, its tokens and its expiry as they were.
C29_RefreshUnsupported ==
    [][ /\ \A id \in AccountIds :
            (UnsupportedRefresh(id) /\ RefreshToken(id))
               => /\ accountStore'.accounts = accountStore.accounts
                  /\ accountStore'.response.status = 400
        /\ (UnsupportedRefresh(accountStore.jobData.accountId) /\ RefreshJobRun)
               => /\ accountStore'.accounts = accountStore.accounts
                  /\ accountStore'.job.state = "completed"
                  /\ accountStore'.job.returnvalue.kind = "skipped"
                  /\ accountStore'.job.failedReason = accountStore.job.failedReason
      ]_vars

\* The job of a LinkedIn account has completed as skipped and the endpoint has
\* refused the refresh of a Facebook account; both accounts are as connected.
C29_Witness ==
    /\ accountStore.jobData.accountId = "a1"
    /\ accountStore.accounts["a1"].platform = "linkedin"
    /\ accountStore.job.state = "completed"
    /\ accountStore.job.returnvalue.kind = "skipped"
    /\ accountStore.accounts["a2"] =
          ConnectedAccount("facebook", [accessToken |-> "tok_a", refreshToken |-> ""])
    /\ accountStore.response = [op |-> "refresh", id |-> "a2", status |-> 400]

\* ------------------------------------------------------------ queue service
\* C25: getJob or removeJob on a name without a queue ends in the not-found
\* error at the caller.
C25_MissingQueueFails ==
    (queueService.last.op \in {"getJob", "removeJob"} /\ queueService.last.missing)
        => /\ queueService.last.outcome = "threw"
           /\ queueService.last.error = QueueNotFound(queueService.last.queue)

\* C26: an enqueue with a negative delay ends in an error, whether the delay
\* comes from a scheduled time in the past or from the options of addJob.
C26_NegativeDelayRejected ==
    (/\ queueService.last.op \in {"addJob", "addScheduledJob", "schedulePost"}
     /\ queueService.last.delay < 0)
        => queueService.last.outcome = "threw"

\* C27: the total getQueueStats returns is the number of jobs the queue held
\* at some instant of the call: it lies between the least and the most the
\* queue held during the call.
C27_StatsSnapshot ==
    (queueService.last.op = "getQueueStats" /\ queueService.last.outcome = "ok")
        => /\ queueService.last.least <= queueService.last.total
           /\ queueService.last.total <= queueService.last.most

\* C28: the priority numbers are urgent 1 < high 2 < normal 5 < low 10, any
\* other tag or none counts as normal, and a job in the queue has the number
\* getPriority gives for the tag of its post.
C28_PriorityFromTag ==
    /\ GetPriority("urgent") = 1
    /\ GetPriority("high") = 2
    /\ GetPriority("normal") = 5
    /\ GetPriority("low") = 10
    /\ GetPriority("urgent") < GetPriority("high")
    /\ GetPriority("high") < GetPriority("normal")
    /\ GetPriority("normal") < GetPriority("low")
    /\ \A tag \in PriorityTags \ {"urgent", "high", "normal", "low"} :
          GetPriority(tag) = GetPriority("normal")
    /\ \A j \in QueueJobIds :
          queueService.jobs[j].job.state # "none"
             => queueService.jobs[j].job.priority = GetPriority(queueService.jobs[j].tag)

\* schedulePost has put a job of an urgent post and a job of a post with an
\* unknown tag into the queue.
C28_Witness ==
    /\ queueService.last.op = "schedulePost"
    /\ queueService.jobs[1].tag = "urgent"
    /\ queueService.jobs[1].job.priority = 1
    /\ queueService.jobs[2].tag = "vip"
    /\ queueService.jobs[2].job.priority = 5
    /\ queueService.jobs[2].job.state = "delayed"

\* ------------------------------------------------------ concurrent publish
\* The account whose adapter call this call of publishPost is waiting for.
InFlight(c) == calls[c].accounts[calls[c].idx].name

\* C30: the platform publish of an account of a post is not invoked twice:
\* no two calls of publishPost for the same post have the adapter call of the
\* same account in flight.
C30_PublishedOnce ==
    \A c1, c2 \in Callers :
        (/\ c1 # c2
         /\ calls[c1].pc = "await"
         /\ calls[c2].pc = "await"
         /\ calls[c1].postId = calls[c2].postId)
            => InFlight(c1) # InFlight(c2)

\* ------------------------------------------------- scheduling, once more
\* The jobs of the post that have yet to run or are running.
PendingJobs(p) ==
    {j \in JobIds : jobs[j].postId = p /\ jobs[j].state \in {"delayed", "waiting", "active"}}

\* C31: a post does not stay in status scheduled with its job done: while no
\* request is being served, a post in status scheduled has a job that has yet
\* to hand it to publishPost.
C31_ScheduledIsPublished ==
    \A p \in PostIds :
        (posts[p].status = "scheduled" /\ http.op = "none") => PendingJobs(p) # {}

\* C32: cancelScheduledPost does not move a published post back to draft: the
\* status write of a cancel leaves a post that is published with recorded
\* platformPostIds published.
C32_CancelKeepsPublished ==
    [][ (/\ CancelSetDraft
         /\ posts[http.postId].status = "published"
         /\ DOMAIN posts[http.postId].platformPostIds # {})
            => posts'[http.postId].status = "published" ]_vars

\* C33: the scheduled worker hands a post to publishPost only when the post's
\* current scheduledPublishDate has come.
C33_NotBeforeCurrentDate ==
    [][ \A j \in JobIds :
          (JobStart(j) /\ calls'[j].pc = "start")
             => posts[jobs[j].postId].scheduledPublishDate <= Now ]_vars

\* C37: a schedule request whose date schedulePost refuses leaves the post
\* record as it was.
C37_FailedScheduleNoChange ==
    [][ \A p \in PostIds, d \in (Now - 1)..(Now + MaxAhead) :
          (HttpSchedule(p, d) /\ ScheduleError(d) # "") => posts' = posts ]_vars

\* C34: a scheduled job that runs while the stored status of its post is not
\* scheduled calls no adapter, leaves the post as it is, and completes as
\* skipped at once: it has used none of its attempts and does not run again.
C34_NotScheduledSkipped ==
    [][ /\ \A j \in JobIds :
            (JobStart(j) /\ posts[jobs[j].postId].status # "scheduled")
               => /\ posts' = posts
                  /\ calls' = calls
                  /\ jobs'[j].state = "completed"
                  /\ jobs'[j].returnvalue = Skipped
                  /\ jobs'[j].attemptsMade = jobs[j].attemptsMade
        /\ \A j \in JobIds :
            (jobs[j].state = "completed" /\ jobs[j].returnvalue = Skipped)
               => /\ jobs'[j].state \in {"completed", "removed"}
                  /\ calls'[j].pc = "idle"
      ]_vars

\* The job of a post that was published in the meantime has run and was
\* skipped; the post is still published.
C34_Witness ==
    \E j \in JobIds :
        /\ jobs[j].state = "completed"
        /\ jobs[j].returnvalue = Skipped
        /\ jobs[j].attemptsMade = 0
        /\ posts[jobs[j].postId].status = "published"
        /\ calls[j].pc = "idle"

\* ---------------------------------------------------- failed and posted
\* C35: when the Twitter publish of an account throws, which is what puts the
\* account into the failed list, no tweet of it has been posted.
C35_FailedPostedNothing ==
    (twitter.via = "publish" /\ twitter.pc = "failed") => twitter.postedTweets = <<>>

\* ------------------------------------------- updateAnalytics side by side
\* C36: after two calls of updateAnalytics for different platforms of one post
\* have completed, the stored analytics hold the values of both platforms and
\* every total includes both.
C36_NoLostUpdate ==
    LET a == updaters.calls[1]
        b == updaters.calls[2]
    IN  (a.pc = "done" /\ b.pc = "done" /\ a.platform # b.platform)
           => \A m \in Metrics :
                /\ PlatformKey(a.platform, m) \in DOMAIN updaters.stored
                /\ PlatformKey(b.platform, m) \in DOMAIN updaters.stored
                /\ updaters.stored[PlatformKey(a.platform, m)] = a.data[m]
                /\ updaters.stored[PlatformKey(b.platform, m)] = b.data[m]
                /\ updaters.stored[AggregateKey(m)] = a.data[m] + b.data[m]

\* ------------------------------------------------ ids and urls of a post
\* The platforms with an entry in the success list.
SuccessPlatforms(results) == {results.success[i].platform : i \in DOMAIN results.success}

\* C38: what publishPost has stored when it returns: platformPostIds and
\* platformUrls have a key for exactly the platforms with an account in the
\* success list, the id of a platform is that of its last account in the
\* list, and so the keys are no more than the success entries and none
\* exactly when success is empty.
C38_KeysMatchSuccess ==
    [][ \A c \in Callers :
          (Returns(c) /\ calls'[c].wrote)
             => LET results == calls'[c].results
                    post == posts'[calls'[c].postId]
                IN  /\ DOMAIN post.platformPostIds = SuccessPlatforms(results)
                    /\ DOMAIN post.platformUrls = SuccessPlatforms(results)
                    /\ \A i \in DOMAIN results.success :
                         (\A k \in DOMAIN results.success :
                             results.success[k].platform = results.success[i].platform
                                => k <= i)
                            => post.platformPostIds[results.success[i].platform]
                                  = results.success[i].postId
                    /\ Cardinality(DOMAIN post.platformPostIds) <= Len(results.success)
                    /\ Cardinality(DOMAIN post.platformUrls) <= Len(results.success)
                    /\ (DOMAIN post.platformUrls = {}) = (results.success = <<>>)
      ]_vars

====
